---- MODULE Spec2Model ----
(***************************************************************************)
(* A model of the scs-paper repository: the analysis scripts               *)
(* (analyses/*/prepare_data.py), the graph utilities (src/utils.py) and    *)
(* the Netzschleuder dataset cache (src/_ns.py).                           *)
(*                                                                         *)
(* Each part of the repository has its own group of variables and its own  *)
(* specification; a specification leaves the other groups at their idle    *)
(* values.                                                                 *)
(*   Spec            the run of an analysis script over a dataset          *)
(*   SpecPreprocess  preprocess_graph on every small graph                 *)
(*   SpecCensus      PathCensus similarity on every small simple graph     *)
(*   SpecCalibrate   the calibrated coefficients of observed and null data *)
(*   SpecPvalues     the significance loop of the proteins script          *)
(*   SpecCache       Netzschleuder.fetch on a data directory               *)
(*   SpecRoundTrip   fetch, then list_graphs, then load_graph              *)
(*   SpecEstimate    estimate_pvalues as the scripts call it               *)
(*   SpecRootPath    get_root_path on every short path                     *)
(*   SpecRescale     rescale on every short array                          *)
(*   SpecNetworks    Netzschleuder.networks after __call__                 *)
(*   SpecFetchKwds   Netzschleuder.fetch with keyword arguments            *)
(*   SpecDescriptive the descriptive statistics and to_latex               *)
(*   SpecMetadata    the metadata fields n_nodes and density               *)
(***************************************************************************)
EXTENDS Integers, Sequences, FiniteSets, TLC

VARIABLES
    \* ---- an analysis script (analyses/*/prepare_data.py) ----
    pipeline,      \* which script runs
    dataset,       \* the graphs of the dataset, in list_graphs order
    pc,            \* position of the script
    idx,           \* index of the graph the loop is at
    meta,          \* the measured run times of the current graph (performance)
    model,         \* the UBCM object of the current graph
    rng,           \* state of the process-wide random number generator
    seedCalls,     \* number of set_seed calls made by this run
    samples,       \* every null sample drawn so far, in order
    compared,      \* indices of the graphs whose comparison was computed
    results,       \* the list the loop appends to (rawdata / data)
    written,       \* whether joblib.dump wrote the output file
    output,        \* contents of the output file
    run,           \* 1 for the first run of the script, 2 for the re-run
    prevSamples,   \* the samples of the first run
    prevOutput,    \* <<written, output>> of the first run
    \* ---- preprocess_graph (src/utils.py) ----
    graph,         \* the graph preprocess_graph is called with
    prepPc,        \* "raw" before the call, "done" after it
    prepared,      \* the graph preprocess_graph returned
    \* ---- PathCensus as the scripts use it ----
    cgraph,        \* the graph PathCensus is built on
    cenPc,         \* "graph" before statistics are computed, "done" after
    census,        \* [sim: similarity per node, global: global similarity]
    \* ---- calibrated coefficients (cdata of the prepare_data.py scripts) ----
    calScript,     \* the script that computes cdata
    obs,           \* data: the observed statistics, one value per column
    null,          \* null: one row of statistics per null sample
    logratio,      \* the table of log-ratios that .mean() is applied to
    cdata,         \* the calibrated coefficient of every column
    calPc,         \* "data" before cdata is computed, "done" after
    \* ---- significance of the nodes (analyses/3-proteins/prepare_data.py) ----
    pvals,         \* the script's pvals: the table estimate_pvalues returned
    pvPc,          \* position of the script in the significance block
    estimates,     \* number of estimate_pvalues calls made for the graph
    adjusted,      \* pv of every iteration of the loop over alpha, in order
    sigs,          \* the list sigs
    \* ---- the dataset cache (src/_ns.py) ----
    nsName,        \* Netzschleuder.name
    nsForce,       \* Netzschleuder.force
    disk,          \* the files of Netzschleuder.datapath: file name -> graph
    last,          \* the last fetch call: arguments, outcome, directory before
    cachePc,       \* "named" after __init__ / __call__, "fetched" after fetch
    \* ---- fetch, list_graphs and load_graph on one directory ----
    rtName,        \* the name of the Netzschleuder instance
    rtNetwork,     \* fetch's argument network
    rtAlias,       \* fetch's argument alias
    rtDir,         \* the files of datapath/<dataset>: file name -> graph
    rtAsked,       \* the name load_graph was called with
    listing,       \* what list_graphs(dataset) returned
    opened,        \* the file name load_graph opened
    rtPc,          \* position of the round trip
    \* ---- estimate_pvalues as the scripts call it ----
    eScript,       \* the script that calls estimate_pvalues
    eObs,          \* the observed table: the statistic of every entity
    eNull,         \* the null table: the statistic of every entity in every sample
    ePvals,        \* the table estimate_pvalues returned
    eFlags,        \* pvals <= alpha
    ePc,           \* "comparison" before the call, "done" after it
    \* ---- get_root_path (src/utils.py) ----
    rpOrigin,      \* Path(origin).absolute(): its components below the filesystem root
    rpRootDir,     \* root_dir
    rpPath,        \* path
    rpPc,          \* "loop" in the while loop, then "returned" or "raised"
    \* ---- rescale (src/utils.py) ----
    rsX,           \* X: [ndim, data], data the values of a one-dimensional float array
    rsM0,          \* m0
    rsM1,          \* m1
    rsOut,         \* what rescale returned or raised
    rsPc,          \* "call" before rescale runs, "done" after
    \* ---- Netzschleuder.networks (src/_ns.py) ----
    netName,       \* Netzschleuder.name of the instance whose networks are read
    netCached,     \* the value cached_property stored for networks, or NotCached
    netRead,       \* what the last access to networks returned or raised
    netPc,         \* "named" after __init__ / __call__, "read" after an access
    \* ---- descriptive statistics (analyses/4-descriptive) ----
    descFiles,     \* for each dataset, the graphs list_graphs returns, in its order
    descTable,     \* the rows of the table built so far
    descLatex,     \* what to_latex made of the table, or NoLatex
    descDone,      \* the number of datasets whose rows are in the table
    descPc,        \* "loop", then "dumped", "latex" or "raised"
    \* ---- graph metadata of the analysis scripts (prepare_data.py) ----
    mdScript,      \* the analysis whose prepare_data.py runs
    mdGraph,       \* the graph analysed
    mdOut,         \* the metadata fields written for it, or NoMetadata
    mdPc           \* "graph" before the fields are written, "done" after

pipeVars == <<pipeline, dataset, pc, idx, meta, model, rng, seedCalls, samples,
              compared, results, written, output, run, prevSamples, prevOutput>>

prepVars == <<graph, prepPc, prepared>>

cenVars == <<cgraph, cenPc, census>>

calVars == <<calScript, obs, null, logratio, cdata, calPc>>

pvVars == <<pvals, pvPc, estimates, adjusted, sigs>>

cacheVars == <<nsName, nsForce, disk, last, cachePc>>

rtVars == <<rtName, rtNetwork, rtAlias, rtDir, rtAsked, listing, opened, rtPc>>

estVars == <<eScript, eObs, eNull, ePvals, eFlags, ePc>>

rootVars == <<rpOrigin, rpRootDir, rpPath, rpPc>>

rsVars == <<rsX, rsM0, rsM1, rsOut, rsPc>>

netVars == <<netName, netCached, netRead, netPc>>

descVars == <<descFiles, descTable, descLatex, descDone, descPc>>

mdVars == <<mdScript, mdGraph, mdOut, mdPc>>

vars == <<pipeVars, prepVars, cenVars, calVars, pvVars, cacheVars, rtVars,
         estVars, rootVars, rsVars, netVars, descVars, mdVars>>

\* What an action of one group leaves alone: the other groups.
pipeOthers == <<prepVars, cenVars, calVars, pvVars, cacheVars, rtVars,
    estVars, rootVars, rsVars, netVars, descVars, mdVars>>
prepOthers == <<pipeVars, cenVars, calVars, pvVars, cacheVars, rtVars,
    estVars, rootVars, rsVars, netVars, descVars, mdVars>>
cenOthers == <<pipeVars, prepVars, calVars, pvVars, cacheVars, rtVars,
    estVars, rootVars, rsVars, netVars, descVars, mdVars>>
calOthers == <<pipeVars, prepVars, cenVars, pvVars, cacheVars, rtVars,
    estVars, rootVars, rsVars, netVars, descVars, mdVars>>
pvOthers == <<pipeVars, prepVars, cenVars, calVars, cacheVars, rtVars,
    estVars, rootVars, rsVars, netVars, descVars, mdVars>>
cacheOthers == <<pipeVars, prepVars, cenVars, calVars, pvVars, rtVars,
    estVars, rootVars, rsVars, netVars, descVars, mdVars>>
rtOthers == <<pipeVars, prepVars, cenVars, calVars, pvVars, cacheVars,
    estVars, rootVars, rsVars, netVars, descVars, mdVars>>
estOthers == <<pipeVars, prepVars, cenVars, calVars, pvVars, cacheVars,
    rtVars, rootVars, rsVars, netVars, descVars, mdVars>>
rootOthers == <<pipeVars, prepVars, cenVars, calVars, pvVars, cacheVars,
    rtVars, estVars, rsVars, netVars, descVars, mdVars>>
rsOthers == <<pipeVars, prepVars, cenVars, calVars, pvVars, cacheVars,
    rtVars, estVars, rootVars, netVars, descVars, mdVars>>
netOthers == <<pipeVars, prepVars, cenVars, calVars, pvVars, cacheVars,
    rtVars, estVars, rootVars, rsVars, descVars, mdVars>>
descOthers == <<pipeVars, prepVars, cenVars, calVars, pvVars, cacheVars,
    rtVars, estVars, rootVars, rsVars, netVars, mdVars>>
mdOthers == <<pipeVars, prepVars, cenVars, calVars, pvVars, cacheVars,
    rtVars, estVars, rootVars, rsVars, netVars, descVars>>

(***************************************************************************)
(* Bounds of the model.                                                    *)
(***************************************************************************)
MaxGraphs == 2      \* graphs in a dataset
RngMod == 4         \* number of states of the random number generator
NSamples == 2       \* stands for N / N_SAMPLES, the number of null samples
MaxVertices == 4    \* vertices of a graph given to preprocess_graph
MaxEdges == 3       \* edges (with repetitions) of such a graph
MaxCensusVertices == 5  \* vertices of a graph given to PathCensus
MaxNodes == 2       \* nodes of a graph whose p-values are estimated
MaxNameLen == 2     \* characters of a dataset, network or alias name
MaxDepth == 3       \* components of the path get_root_path starts from
MaxArray == 2       \* values of the array rescale is given
MaxNetworks == 2    \* graph files of a dataset that is described
MaxMetaVertices == 4  \* vertices of a graph whose metadata are stored

(***************************************************************************)
(* ANALYSIS SCRIPTS                                                        *)
(***************************************************************************)
Pipelines == {"domains", "social", "proteins", "performance"}

\* The scripts that call model.validate() and infer.init_comparison().
ComparisonPipelines == {"domains", "social", "proteins"}

SeedDomains == 303
SeedSocial == 1019
SeedProteins == 44
SeedPerformance == 303

Seed(p) ==
    CASE p = "domains" -> SeedDomains
      [] p = "social" -> SeedSocial
      [] p = "proteins" -> SeedProteins
      [] p = "performance" -> SeedPerformance

\* What UBCM.fit() does on a graph: "ok" converges to a good fit, "poor"
\* returns a fit whose expected degrees are off (validate() raises on it),
\* "raise" is a fit() that raises. It is a property of the graph: the solver
\* is deterministic.
FitOutcomes == {"ok", "poor", "raise"}

\* A graph of the dataset: its fit outcome and whether vcount() > 1000.
GraphT == [fit : FitOutcomes, big : BOOLEAN]

Datasets == UNION {[1..k -> GraphT] : k \in 1..MaxGraphs}

NoModel == [g |-> 0, fitted |-> FALSE, validated |-> FALSE]

\* What measure_time returns: time() - start, whatever the clock says.
Elapsed == {"fast", "slow"}

\* set_seed(seed): the generator's state becomes a function of the seed alone.
SeedRngUnseeded(seed, r) == r
SeedRng(seed, r) == seed % RngMod

\* The generator's state after k draws.
RECURSIVE Advance(_, _)
Advance(r, k) == IF k = 0 THEN r ELSE Advance((r + 1) % RngMod, k - 1)

\* model.fit() raises.
FitRaises(g) == g.fit = "raise"

\* model.validate() raises: the fitted expected degrees are off.
ValidateSwallowed(g) == FALSE
ValidateRaises(g) == g.fit = "poor"

\* n of init_comparison(n): N_SAMPLES, or in the domains script N for a graph
\* of more than 1000 vertices and 2N otherwise.
NullDraws(p, g) ==
    IF p = "domains" /\ ~g.big THEN 2 * NSamples ELSE NSamples

\* k samples drawn from model m with the generator at r.
Draws(m, r, k) ==
    [j \in 1..k |-> [g |-> m.g, draw |-> Advance(r, j - 1),
                     fitted |-> m.fitted, validated |-> m.validated]]

PipeInit ==
    /\ pipeline \in Pipelines
    /\ dataset \in Datasets
    /\ pc = "start"
    /\ idx = 1
    /\ meta = 0
    /\ model = NoModel
    /\ rng \in 0..(RngMod - 1)
    /\ seedCalls = 0
    /\ samples = <<>>
    /\ compared = {}
    /\ results = <<>>
    /\ written = FALSE
    /\ output = <<>>
    /\ run = 1
    /\ prevSamples = <<>>
    /\ prevOutput = <<FALSE, <<>>>>

\* domains: NETWORKS = {name: load_graph(...)} before the seed is set.
LoadNetworks ==
    /\ pipeline = "domains"
    /\ pc = "start"
    /\ pc' = "ready"
    /\ UNCHANGED pipeOthers
    /\ UNCHANGED <<pipeline, dataset, meta, idx, model, rng, seedCalls, samples,
                   compared, results, written, output, run, prevSamples,
                   prevOutput>>

\* set_seed(...)
SetSeed ==
    /\ \/ pipeline = "domains" /\ pc = "ready"
       \/ pipeline # "domains" /\ pc = "start"
    /\ rng' = SeedRng(Seed(pipeline), rng)
    /\ seedCalls' = seedCalls + 1
    /\ pc' = "loop"
    /\ UNCHANGED pipeOthers
    /\ UNCHANGED <<pipeline, dataset, meta, idx, model, samples, compared, results,
                   written, output, run, prevSamples, prevOutput>>

\* The loop takes the next graph and builds model = UBCM(graph). The
\* performance script first measures PathCensus on the graph itself
\* (meta["times_original"]).
BeginGraph ==
    /\ pc = "loop"
    /\ idx <= Len(dataset)
    /\ IF pipeline = "performance" THEN meta' \in Elapsed ELSE meta' = 0
    /\ model' = [g |-> idx, fitted |-> FALSE, validated |-> FALSE]
    /\ pc' = "built"
    /\ UNCHANGED pipeOthers
    /\ UNCHANGED <<pipeline, dataset, idx, rng, seedCalls, samples, compared,
                   results, written, output, run, prevSamples, prevOutput>>

\* model.fit(): an exception ends the script.
Fit ==
    /\ pc = "built"
    /\ IF FitRaises(dataset[idx])
         THEN pc' = "aborted" /\ model' = model
         ELSE pc' = "fitted" /\ model' = [model EXCEPT !.fitted = TRUE]
    /\ UNCHANGED pipeOthers
    /\ UNCHANGED <<pipeline, dataset, meta, idx, rng, seedCalls, samples, compared,
                   results, written, output, run, prevSamples, prevOutput>>

\* model.validate(): an exception ends the script.
Validate ==
    /\ pc = "fitted"
    /\ pipeline \in ComparisonPipelines
    /\ IF ValidateRaises(dataset[idx])
         THEN pc' = "aborted" /\ model' = model
         ELSE pc' = "validated" /\ model' = [model EXCEPT !.validated = TRUE]
    /\ UNCHANGED pipeOthers
    /\ UNCHANGED <<pipeline, dataset, meta, idx, rng, seedCalls, samples, compared,
                   results, written, output, run, prevSamples, prevOutput>>

\* infer.init_comparison(n, ...) and the rest of the loop body: the result of
\* the graph is appended. The domains script also draws df.sample(...) from
\* the same generator.
Compare ==
    /\ pc = "validated"
    /\ LET n == NullDraws(pipeline, dataset[idx])
           drawn == Draws(model, rng, n)
           used == IF pipeline = "domains" THEN n + 1 ELSE n
       IN /\ samples' = samples \o drawn
          /\ rng' = Advance(rng, used)
          /\ results' = Append(results, [g |-> idx, null |-> drawn,
                                         times |-> <<>>])
    /\ compared' = compared \cup {idx}
    /\ idx' = idx + 1
    /\ pc' = "loop"
    /\ UNCHANGED pipeOthers
    /\ UNCHANGED <<pipeline, dataset, meta, model, seedCalls, written, output, run,
                   prevSamples, prevOutput>>

\* performance: rand = model.sample_one() right after UBCM(graph).fit(), then
\* PathCensus is timed on rand (meta["times_randomized"]) and meta appended.
SampleOne ==
    /\ pc = "fitted"
    /\ pipeline = "performance"
    /\ \E t \in Elapsed :
         LET drawn == Draws(model, rng, 1)
         IN /\ samples' = samples \o drawn
            /\ results' = Append(results, [g |-> idx, null |-> drawn,
                                           times |-> <<meta, t>>])
    /\ rng' = Advance(rng, 1)
    /\ idx' = idx + 1
    /\ pc' = "loop"
    /\ UNCHANGED pipeOthers
    /\ UNCHANGED <<pipeline, dataset, meta, model, seedCalls, compared, written,
                   output, run, prevSamples, prevOutput>>

\* joblib.dump(...) after the loop.
Dump ==
    /\ pc = "loop"
    /\ idx > Len(dataset)
    /\ written' = TRUE
    /\ output' = results
    /\ pc' = "done"
    /\ UNCHANGED pipeOthers
    /\ UNCHANGED <<pipeline, dataset, meta, idx, model, rng, seedCalls, samples,
                   compared, results, run, prevSamples, prevOutput>>

\* The script is run a second time on the same dataset: a new process, whose
\* generator starts in an arbitrary state.
Rerun ==
    /\ pc \in {"done", "aborted"}
    /\ run = 1
    /\ run' = 2
    /\ prevSamples' = samples
    /\ prevOutput' = <<written, output>>
    /\ pc' = "start"
    /\ idx' = 1
    /\ meta' = 0
    /\ model' = NoModel
    /\ rng' \in 0..(RngMod - 1)
    /\ seedCalls' = 0
    /\ samples' = <<>>
    /\ compared' = {}
    /\ results' = <<>>
    /\ written' = FALSE
    /\ output' = <<>>
    /\ UNCHANGED pipeOthers
    /\ UNCHANGED <<pipeline, dataset>>

(***************************************************************************)
(* GRAPH UTILITIES (src/utils.py)                                          *)
(*                                                                         *)
(* A graph is [verts, directed, edges]: verts the set of its vertices      *)
(* (induced_subgraph keeps the vertices' identities here instead of        *)
(* renumbering them), edges the multiplicity of every pair <<u, v>>. An    *)
(* undirected graph holds the edge between u and v at <<u, v>> with        *)
(* u <= v.                                                                 *)
(***************************************************************************)
Pairs(V) == V \X V

NormPairs(V) == {p \in Pairs(V) : p[1] <= p[2]}

\* The multisets of at most k elements of P, as multiplicity functions.
RECURSIVE BagsOf(_, _)
BagsOf(P, k) ==
    IF k = 0 THEN {[p \in P |-> 0]}
    ELSE LET B == BagsOf(P, k - 1)
         IN B \cup {[b EXCEPT ![p] = @ + 1] : b \in B, p \in P}

\* The graphs on the vertices 1..n with at most MaxEdges edges.
GraphsOn(n) ==
    LET V == 1..n
    IN {[verts |-> V, directed |-> TRUE, edges |-> b] :
            b \in BagsOf(Pairs(V), MaxEdges)}
       \cup
       {[verts |-> V, directed |-> FALSE,
         edges |-> [p \in Pairs(V) |-> IF p[1] <= p[2] THEN b[p] ELSE 0]] :
            b \in BagsOf(NormPairs(V), MaxEdges)}

\* graph.simplify(): multi-edges become one edge, self-loops are removed.
Simplify(g) ==
    [g EXCEPT !.edges =
        [p \in Pairs(g.verts) |->
            IF p[1] # p[2] /\ g.edges[p] > 0 THEN 1 ELSE 0]]

\* graph.to_undirected(mode="each"): every directed edge is kept as an edge.
ToUndirectedEach(g) ==
    IF ~g.directed THEN g
    ELSE [g EXCEPT !.directed = FALSE,
                   !.edges = [p \in Pairs(g.verts) |->
                       IF p[1] < p[2] THEN g.edges[p] + g.edges[<<p[2], p[1]>>]
                       ELSE IF p[1] = p[2] THEN g.edges[p] ELSE 0]]

\* graph.to_undirected() (mode="collapse"): the edges between two vertices, in
\* either direction, become one undirected edge; nothing to do for a graph
\* that is undirected already.
ToUndirected(g) ==
    IF ~g.directed THEN g
    ELSE [g EXCEPT !.directed = FALSE,
                   !.edges = [p \in Pairs(g.verts) |->
                       IF p[1] <= p[2] /\ g.edges[p] + g.edges[<<p[2], p[1]>>] > 0
                       THEN 1 ELSE 0]]

\* The neighbours of v, following edges forwards (and, in an undirected graph,
\* both ways).
Succ(g, v) ==
    {w \in g.verts : g.edges[<<v, w>>] > 0 \/ (~g.directed /\ g.edges[<<w, v>>] > 0)}

\* The vertices a breadth-first search from the set S visits.
RECURSIVE Bfs(_, _)
Bfs(g, S) ==
    LET T == S \cup UNION {Succ(g, v) : v \in S}
    IN IF T = S THEN S ELSE Bfs(g, T)

\* The component of v: the vertices that reach v and that v reaches.
ComponentOf(g, v) == {w \in Bfs(g, {v}) : v \in Bfs(g, {w})}

Min(S) == CHOOSE x \in S : \A y \in S : x <= y

\* graph.components(): the components in the order of their first vertices.
RECURSIVE ComponentsFrom(_, _)
ComponentsFrom(g, left) ==
    IF left = {} THEN <<>>
    ELSE LET c == ComponentOf(g, Min(left))
         IN <<c>> \o ComponentsFrom(g, left \ c)

Components(g) == ComponentsFrom(g, g.verts)

\* graph.induced_subgraph(vids)
InducedSubgraph(g, vids) ==
    [verts |-> vids, directed |-> g.directed,
     edges |-> [p \in Pairs(vids) |-> g.edges[p]]]

\* The loop with >= in the place of >: the last of the largest components.
RECURSIVE LargestFromLast(_, _, _)
LargestFromLast(comps, i, vids) ==
    IF i > Len(comps) THEN vids
    ELSE IF vids = {} \/ Cardinality(comps[i]) >= Cardinality(vids)
         THEN LargestFromLast(comps, i + 1, comps[i])
         ELSE LargestFromLast(comps, i + 1, vids)

\* The loop of get_largest_component over comps[i..], with vids so far.
RECURSIVE LargestFrom(_, _, _)
LargestFrom(comps, i, vids) ==
    IF i > Len(comps) THEN vids
    ELSE IF vids = {} \/ Cardinality(comps[i]) > Cardinality(vids)
         THEN LargestFrom(comps, i + 1, comps[i])
         ELSE LargestFrom(comps, i + 1, vids)

\* get_largest_component(graph)
GetLargestComponent(g) ==
    InducedSubgraph(g, LargestFrom(Components(g), 1, {}))

\* preprocess_graph(graph, simplify, undirected, largest_component)
PreprocessGraph(g, simplify, undirected, largest_component) ==
    LET g1 == IF simplify THEN Simplify(g) ELSE g
        g2 == IF undirected THEN ToUndirected(g1) ELSE g1
    IN IF largest_component THEN GetLargestComponent(g2) ELSE g2

NoGraph == [verts |-> {}, directed |-> FALSE, edges |-> <<>>]

PrepIdle == graph = NoGraph /\ prepPc = "idle" /\ prepared = NoGraph

PrepInit ==
    /\ \E n \in 1..MaxVertices : graph \in GraphsOn(n)
    /\ prepPc = "raw"
    /\ prepared = NoGraph

\* preprocess_graph(graph) with its default arguments.
Preprocess ==
    /\ prepPc = "raw"
    /\ prepared' = PreprocessGraph(graph, TRUE, TRUE, TRUE)
    /\ prepPc' = "done"
    /\ UNCHANGED prepOthers
    /\ UNCHANGED graph

\* get_largest_component(graph) on the graph as it is.
LargestComponent ==
    /\ prepPc = "raw"
    /\ prepared' = GetLargestComponent(graph)
    /\ prepPc' = "largest"
    /\ UNCHANGED prepOthers
    /\ UNCHANGED graph

(***************************************************************************)
(* PATHCENSUS (the pathcensus package; the scripts only call it)           *)
(*                                                                         *)
(* A coefficient is a ratio [num, den] with den > 0, or NaN (written 0/0). *)
(***************************************************************************)
\* The simple undirected graphs on the vertices 1..n.
SimpleGraphsOn(n) ==
    LET V == 1..n
        P == {p \in Pairs(V) : p[1] < p[2]}
    IN {[verts |-> V, directed |-> FALSE,
         edges |-> [p \in Pairs(V) |-> IF p \in E THEN 1 ELSE 0]] : E \in SUBSET P}

Adjacent(g, u, v) == u # v /\ (g.edges[<<u, v>>] > 0 \/ g.edges[<<v, u>>] > 0)

Neighbours(g, v) == {w \in g.verts : Adjacent(g, v, w)}

Degree(g, v) == Cardinality(Neighbours(g, v))

\* Wedges centred at v: the pairs of neighbours of v.
WedgesAt(g, v) == {e \in SUBSET Neighbours(g, v) : Cardinality(e) = 2}

\* Triangles at v: the pairs of neighbours of v that are adjacent.
TrianglesAt(g, v) ==
    {e \in WedgesAt(g, v) : \E a \in e : \E b \in e : Adjacent(g, a, b)}

NaN == [num |-> 0, den |-> 0]

\* num / den, which is NaN when the denominator is zero.
Ratio(num, den) == IF den = 0 THEN NaN ELSE [num |-> num, den |-> den]

\* coefs("nodes")["sim"] of node v: closed triads over possible triads at v.
NodeSimilarity(g, v) ==
    Ratio(Cardinality(TrianglesAt(g, v)), Cardinality(WedgesAt(g, v)))

\* The triangles, and the wedges, at the vertices S added up.
RECURSIVE SumTriangles(_, _)
SumTriangles(g, S) ==
    IF S = {} THEN 0
    ELSE LET v == CHOOSE y \in S : TRUE
         IN Cardinality(TrianglesAt(g, v)) + SumTriangles(g, S \ {v})

RECURSIVE SumWedges(_, _)
SumWedges(g, S) ==
    IF S = {} THEN 0
    ELSE LET v == CHOOSE y \in S : TRUE
         IN Cardinality(WedgesAt(g, v)) + SumWedges(g, S \ {v})

\* similarity("global") with every triangle counted once, not at each corner.
GlobalSimilarityOnce(g) ==
    Ratio(SumTriangles(g, g.verts) \div 3, SumWedges(g, g.verts))

\* similarity("global"): the counts are summed over the graph, then divided.
GlobalSimilarity(g) ==
    Ratio(SumTriangles(g, g.verts), SumWedges(g, g.verts))

NoCensus == [sim |-> <<>>, global |-> NaN]

CenIdle == cgraph = NoGraph /\ cenPc = "idle" /\ census = NoCensus

CenInit ==
    /\ \E n \in 1..MaxCensusVertices : cgraph \in SimpleGraphsOn(n)
    /\ cenPc = "graph"
    /\ census = NoCensus

\* paths = PathCensus(graph); paths.coefs("nodes"); paths.similarity("global")
Statistics ==
    /\ cenPc = "graph"
    /\ census' = [sim |-> [v \in cgraph.verts |-> NodeSimilarity(cgraph, v)],
                  global |-> GlobalSimilarity(cgraph)]
    /\ cenPc' = "done"
    /\ UNCHANGED cenOthers
    /\ UNCHANGED cgraph

(***************************************************************************)
(* CALIBRATED COEFFICIENTS (cdata in the prepare_data.py scripts)          *)
(*                                                                         *)
(* Floating-point values are [kind, e]: "nan", "zero", "pos" (the value    *)
(* 2^e), "pinf" and "ninf"; a logarithm (base 2) is "nan", "pinf", "ninf"  *)
(* or "fin" (the value e). The table holds one observed row and one row    *)
(* per null sample, as the index alignment of data / null pairs them.      *)
(***************************************************************************)
Cols == {"sim", "comp"}

\* The exponents of the positive coefficient values: 1/2 and 1.
Exps == {-1, 0}

VNaN == [kind |-> "nan", e |-> 0]
VZero == [kind |-> "zero", e |-> 0]
VPInf == [kind |-> "pinf", e |-> 0]
VNInf == [kind |-> "ninf", e |-> 0]
VPos(e) == [kind |-> "pos", e |-> e]
VFin(e) == [kind |-> "fin", e |-> e]

RawVals == {VNaN, VZero} \cup {VPos(e) : e \in Exps}

RawRows == [Cols -> RawVals]

CalScripts == {"domains", "social", "proteins"}

\* b / a: the operands the wrong way round.
DivSwapped(a, b) ==
    IF a.kind = "nan" \/ b.kind = "nan" THEN VNaN
    ELSE IF b.kind = "zero" THEN (IF a.kind = "zero" THEN VNaN ELSE VZero)
    ELSE IF a.kind = "zero" THEN VPInf
    ELSE VPos(b.e - a.e)

\* a / b in floating point, for a and b that are NaN, zero or positive.
Div(a, b) ==
    IF a.kind = "nan" \/ b.kind = "nan" THEN VNaN
    ELSE IF a.kind = "zero" THEN (IF b.kind = "zero" THEN VNaN ELSE VZero)
    ELSE IF b.kind = "zero" THEN VPInf
    ELSE VPos(a.e - b.e)

\* np.log(x) for x that is NaN, zero, positive or +inf.
Log(x) ==
    CASE x.kind = "nan" -> VNaN
      [] x.kind = "zero" -> VNInf
      [] x.kind = "pinf" -> VPInf
      [] x.kind = "pos" -> VFin(x.e)

\* np.log(data / null): every null row against the observed row.
LogRatios(o, n) ==
    [r \in 1..Len(n) |-> [c \in Cols |-> Log(Div(o[c], n[r][c]))]]

\* The table without the .replace(...) call.
ReplaceInfSkipped(t) == t

\* .replace([np.inf, -np.inf], np.nan)
ReplaceInf(t) ==
    [r \in 1..Len(t) |->
        [c \in Cols |-> IF t[r][c].kind \in {"pinf", "ninf"} THEN VNaN ELSE t[r][c]]]

\* .dropna(): the rows with a NaN in any column are dropped.
DropNa(t) ==
    LET complete(row) == \A c \in Cols : row[c].kind # "nan"
    IN SelectSeq(t, complete)

RECURSIVE SumFin(_, _, _)
SumFin(t, c, r) ==
    IF r = 0 THEN 0
    ELSE SumFin(t, c, r - 1) + (IF t[r][c].kind = "fin" THEN t[r][c].e ELSE 0)

\* .mean() of column c: NaN is skipped; the mean of nothing is NaN; an
\* infinite value makes the mean infinite (or NaN, with both signs present).
\* A finite mean is num / den.
Mean(t, c) ==
    LET kinds == {t[r][c].kind : r \in 1..Len(t)}
        count == Cardinality({r \in 1..Len(t) : t[r][c].kind = "fin"})
    IN IF "pinf" \in kinds /\ "ninf" \in kinds THEN [kind |-> "nan", num |-> 0, den |-> 0]
       ELSE IF "pinf" \in kinds THEN [kind |-> "pinf", num |-> 0, den |-> 0]
       ELSE IF "ninf" \in kinds THEN [kind |-> "ninf", num |-> 0, den |-> 0]
       ELSE IF count = 0 THEN [kind |-> "nan", num |-> 0, den |-> 0]
       ELSE [kind |-> "fin", num |-> SumFin(t, c, Len(t)), den |-> count]

\* The permutations of 1..n: the orders df.sample(n, replace=False) may
\* return the n rows in.
Perms(n) == {f \in [1..n -> 1..n] : \A i \in 1..n : \E j \in 1..n : f[j] = i}

\* The table .mean() is applied to. domains: null is subsampled (all its rows
\* in some order, as there are at most max_n = 1000), then np.log(data /
\* cnull).replace(...); social and proteins: np.log(data / null)
\* .reset_index(drop=True).replace(...).dropna().
CalibratedTable(script, o, n, perm) ==
    IF script = "domains"
    THEN ReplaceInf(LogRatios(o, [r \in 1..Len(n) |-> n[perm[r]]]))
    ELSE DropNa(ReplaceInf(LogRatios(o, n)))

NoRow == [c \in Cols |-> VNaN]

NoCData == [c \in Cols |-> [kind |-> "nan", num |-> 0, den |-> 0]]

CalIdle ==
    /\ calScript = "none"
    /\ obs = NoRow
    /\ null = <<>>
    /\ logratio = <<>>
    /\ cdata = NoCData
    /\ calPc = "idle"

CalInit ==
    /\ calScript \in CalScripts
    /\ obs \in RawRows
    /\ null \in [1..NSamples -> RawRows]
    /\ logratio = <<>>
    /\ cdata = NoCData
    /\ calPc = "data"

\* cdata = np.log(data / null) ... .mean()
Calibrate ==
    /\ calPc = "data"
    /\ \E perm \in Perms(Len(null)) :
         /\ calScript # "domains" => \A r \in 1..Len(null) : perm[r] = r
         /\ logratio' = CalibratedTable(calScript, obs, null, perm)
    /\ cdata' = [c \in Cols |-> Mean(logratio', c)]
    /\ calPc' = "done"
    /\ UNCHANGED calOthers
    /\ UNCHANGED <<calScript, obs, null>>

PipeIdle ==
    /\ pipeline = "none"
    /\ dataset = <<>>
    /\ pc = "idle"
    /\ idx = 0
    /\ meta = 0
    /\ model = NoModel
    /\ rng = 0
    /\ seedCalls = 0
    /\ samples = <<>>
    /\ compared = {}
    /\ results = <<>>
    /\ written = FALSE
    /\ output = <<>>
    /\ run = 0
    /\ prevSamples = <<>>
    /\ prevOutput = <<FALSE, <<>>>>

(***************************************************************************)
(* SIGNIFICANCE OF THE NODES (analyses/3-proteins/prepare_data.py)         *)
(*                                                                         *)
(* A p-value is an integer number of units, Unit units to the percent, so  *)
(* that the corrected p-values p * m / rank are integers as well. A table  *)
(* of p-values has one row per node and the columns Cols.                  *)
(***************************************************************************)
RECURSIVE Factorial(_)
Factorial(n) == IF n = 0 THEN 1 ELSE n * Factorial(n - 1)

\* Units to the percent: three corrections in a row divide exactly.
Unit == Factorial(MaxNodes) * Factorial(MaxNodes) * Factorial(MaxNodes)

\* The p-value 1.
POne == 100 * Unit

\* for alpha in (.01, .05, .1), in percent
Alphas == <<1, 5, 10>>

\* The raw p-values estimate_pvalues may return, in percent.
RawPercents == {0, 1, 3, 5, 100}

RawPvalues == {k * Unit : k \in RawPercents}

\* The number of p-values of the column that are at most that of v.
Rank(col, v) == Cardinality({u \in DOMAIN col : col[u] <= col[v]})

\* The Benjamini-Hochberg correction of one column: the smallest p * m / rank
\* over the p-values that are at least that of v, and at most 1.
BenjaminiHochberg(col) ==
    LET m == Cardinality(DOMAIN col)
    IN [v \in DOMAIN col |->
            Min({POne} \cup {(col[w] * m) \div Rank(col, w) :
                                w \in {u \in DOMAIN col : col[u] >= col[v]}})]

\* Inference.adjust_pvalues(pvals, alpha=alpha, copy=copy): out is the table
\* it returns, arg the table it was given as the call leaves it.
AdjustPvalues(pv, alpha, copy) ==
    LET out == [v \in DOMAIN pv |->
                    [c \in Cols |->
                        BenjaminiHochberg([u \in DOMAIN pv |-> pv[u][c]])[v]]]
    IN [out |-> out, arg |-> IF copy THEN pv ELSE out]

\* The call with copy=False: the correction is written into pvals.
AdjustCallInPlace(pv, alpha) == AdjustPvalues(pv, alpha, FALSE)

\* infer.adjust_pvalues(pvals, alpha=alpha, copy=True)
AdjustCall(pv, alpha) == AdjustPvalues(pv, alpha, TRUE)

Int01(b) == IF b THEN 1 ELSE 0

\* The flags without sim &= ~both and comp &= ~both.
SigFlagsOverlapping(row, alpha) ==
    LET sim == row["sim"] <= alpha
        comp == row["comp"] <= alpha
        both == sim /\ comp
    IN [sim |-> Int01(sim), comp |-> Int01(comp), both |-> Int01(both),
        neither |-> 1 - (Int01(sim) + Int01(comp) + Int01(both))]

\* The flags of one node: sig = (pv <= alpha)[["sim", "comp"]], then both,
\* sim &= ~both, comp &= ~both and neither = 1 - (sim + comp + both).
SigFlags(row, alpha) ==
    LET sim0 == row["sim"] <= alpha
        comp0 == row["comp"] <= alpha
        both == sim0 /\ comp0
        sim == sim0 /\ ~both
        comp == comp0 /\ ~both
    IN [sim |-> Int01(sim), comp |-> Int01(comp), both |-> Int01(both),
        neither |-> 1 - (Int01(sim) + Int01(comp) + Int01(both))]

SigCols == {"sim", "comp", "both", "neither"}

RECURSIVE SumFlags(_, _, _, _)
SumFlags(pv, alpha, c, n) ==
    IF n = 0 THEN 0
    ELSE SigFlags(pv[n], alpha)[c] + SumFlags(pv, alpha, c, n - 1)

\* sig.mean(): the fraction of the nodes with each flag, count over nodes.
SigMeans(pv, alpha) ==
    [c \in SigCols |-> [num |-> SumFlags(pv, alpha, c, Len(pv)), den |-> Len(pv)]]

NoPvals == <<>>

PvIdle ==
    /\ pvals = NoPvals
    /\ pvPc = "idle"
    /\ estimates = 0
    /\ adjusted = <<>>
    /\ sigs = <<>>

PvInit ==
    /\ pvals = NoPvals
    /\ pvPc = "comparison"
    /\ estimates = 0
    /\ adjusted = <<>>
    /\ sigs = <<>>

\* pvals = infer.estimate_pvalues(odf, ndf, adjust=False); sigs = []
EstimatePvalues ==
    /\ pvPc = "comparison"
    /\ \E n \in 1..MaxNodes : pvals' \in [1..n -> [Cols -> RawPvalues]]
    /\ estimates' = estimates + 1
    /\ sigs' = <<>>
    /\ adjusted' = <<>>
    /\ pvPc' = "alphas"
    /\ UNCHANGED pvOthers

\* One iteration of for alpha in (.01, .05, .1).
AdjustAlpha ==
    /\ pvPc = "alphas"
    /\ Len(sigs) < Len(Alphas)
    /\ LET alpha == Alphas[Len(sigs) + 1] * Unit
           call == AdjustCall(pvals, alpha)
       IN /\ pvals' = call.arg
          /\ adjusted' = Append(adjusted, call.out)
          /\ sigs' = Append(sigs, SigMeans(call.out, alpha))
    /\ UNCHANGED <<pvPc, estimates>>
    /\ UNCHANGED pvOthers

\* sig01, sig05, sig10 = sigs
UnpackSigs ==
    /\ pvPc = "alphas"
    /\ Len(sigs) = Len(Alphas)
    /\ pvPc' = "done"
    /\ UNCHANGED <<pvals, estimates, adjusted, sigs>>
    /\ UNCHANGED pvOthers

(***************************************************************************)
(* THE DATASET CACHE (src/_ns.py, list_graphs and load_graph of            *)
(* src/utils.py)                                                           *)
(*                                                                         *)
(* A string is the sequence of its characters; None and "" are both <<>>,  *)
(* as the code only tests them for truth. A directory is a function from   *)
(* file names to the graphs stored in the files. The name of a             *)
(* Netzschleuder instance is a non-empty string.                           *)
(***************************************************************************)
NameChars == {"a", ".", "_"}

\* The strings of at most n characters.
Strings(n) == UNION {[1..k -> NameChars] : k \in 0..n}

\* ".pkl.gz"
Suffix == <<".", "p", "k", "l", ".", "g", "z">>

\* "__"
Sep == <<"_", "_">>

\* sub in s
Contains(s, sub) ==
    \E i \in 1..(Len(s) - Len(sub) + 1) : SubSeq(s, i, i + Len(sub) - 1) = sub

EndsWith(s, suf) ==
    /\ Len(s) >= Len(suf)
    /\ SubSeq(s, Len(s) - Len(suf) + 1, Len(s)) = suf

Maximum(S) == CHOOSE x \in S : \A y \in S : y <= x

\* s.split(ch)
RECURSIVE Split(_, _)
Split(s, ch) ==
    IF \A i \in 1..Len(s) : s[i] # ch THEN <<s>>
    ELSE LET i == Min({j \in 1..Len(s) : s[j] = ch})
         IN <<SubSeq(s, 1, i - 1)>> \o Split(SubSeq(s, i + 1, Len(s)), ch)

\* ch.join(parts)
RECURSIVE Join(_, _)
Join(parts, ch) ==
    IF Len(parts) = 0 THEN <<>>
    ELSE IF Len(parts) = 1 THEN parts[1]
    ELSE parts[1] \o <<ch>> \o Join(Tail(parts), ch)

\* Path.stem: the name without its last suffix; a dot that starts or ends
\* the name starts no suffix.
Stem(f) ==
    LET dots == {i \in 1..Len(f) : f[i] = "."}
    IN IF dots = {} THEN f
       ELSE LET i == Maximum(dots)
            IN IF 1 < i /\ i < Len(f) THEN SubSeq(f, 1, i - 1) ELSE f

\* The keyword arguments of a fetch call that reach download: attrs stands
\* for the graph attributes (domain, relation, desc, label, ...), post for
\* the postprocess callable.
Kwds == [attrs : {"none", "m1", "m2"}, post : {"none", "p1"}]

\* fetch(network, alias=alias, force=force): no other keyword argument.
NoKwds == [attrs |-> "none", post |-> "none"]

\* Netzschleuder.download(network, **kwds): the graph
\* gt.collection.ns[f"{self.name}/{network}"], postprocessed and converted
\* by gt_to_igraph, which sets the graph attributes.
Download(name, network, kwds) ==
    [key |-> name \o <<"/">> \o network, attrs |-> kwds.attrs, post |-> kwds.post]

NoFile == [key |-> <<>>, attrs |-> "none", post |-> "none"]

EmptyDir == [f \in {} |-> NoFile]

\* graph.write_picklez(str(fpath))
WriteFile(dir, fpath, g) ==
    [f \in DOMAIN dir \cup {fpath} |-> IF f = fpath THEN g ELSE dir[f]]

ForceArgs == {"None", "True", "False"}

\* The instance's force, whatever the call says.
EffectiveForceOfInstance(selfForce, force) == selfForce

\* if force is None: force = self.force
EffectiveForce(selfForce, force) ==
    IF force = "None" THEN selfForce ELSE force = "True"

\* network = network or self.name
FetchNetwork(name, network) == IF network # <<>> THEN network ELSE name

\* alias = alias if alias else network
FetchAlias(alias, network) == IF alias # <<>> THEN alias ELSE network

\* f"{self.name}__{alias}.pkl.gz"
FetchPath(name, alias) == name \o Sep \o alias \o Suffix

\* Netzschleuder.fetch(network, alias=alias, force=force, **kwds) of the
\* instance self on the directory dir; ok tells whether download() returns
\* or raises.
\* requested: download() was called; raised: fetch raised; disk: the
\* directory after the call; ret: the graph returned.
Fetch(self, dir, network, alias, force, kwds, ok) ==
    LET eff == EffectiveForce(self.force, force)
        net == FetchNetwork(self.name, network)
        fpath == FetchPath(self.name, FetchAlias(alias, net))
    IN IF eff \/ fpath \notin DOMAIN dir
       THEN IF ok
            THEN [requested |-> TRUE, raised |-> FALSE,
                  disk |-> WriteFile(dir, fpath, Download(self.name, net, kwds)),
                  ret |-> Download(self.name, net, kwds)]
            ELSE [requested |-> TRUE, raised |-> TRUE,
                  disk |-> dir, ret |-> NoFile]
       ELSE [requested |-> FALSE, raised |-> FALSE,
             disk |-> dir, ret |-> dir[fpath]]

\* path.glob("*.pkl.gz")
Glob(dir) == {f \in DOMAIN dir : EndsWith(f, Suffix)}

DropLast(q) == SubSeq(q, 1, Len(q) - 1)

\* The name up to its first dot.
ListNameToFirstDot(f) == Split(Stem(f), ".")[1]

\* ".".join(fpath.stem.split(".")[:-1])
ListName(f) == Join(DropLast(Split(Stem(f), ".")), ".")

\* list_graphs(dataset), as the set of the names it returns.
ListGraphs(dir) == {ListName(f) : f \in Glob(dir)}

\* The file name load_graph(dataset, name) opens in datapath/dataset.
LoadPath(dset, name) ==
    LET n == IF name # <<>> THEN name ELSE dset
        full == IF ~Contains(n, Sep) THEN n \o Sep \o n ELSE n
    IN full \o Suffix

\* The dataset and network names of the fetch_networks.py sessions modelled.
CacheNames == {<<"a">>, <<"a", ".", "a">>}

NoCall ==
    [network |-> <<>>, alias |-> <<>>, force |-> "None", kwds |-> NoKwds,
     requested |-> FALSE,
     raised |-> FALSE, ret |-> NoFile, before |-> EmptyDir]

CacheIdle ==
    /\ nsName = <<>>
    /\ nsForce = FALSE
    /\ disk = EmptyDir
    /\ last = NoCall
    /\ cachePc = "idle"

\* ns = Netzschleuder(datapath, name, force=force) on a new directory
CacheInit ==
    /\ nsName \in CacheNames
    /\ nsForce \in BOOLEAN
    /\ disk = EmptyDir
    /\ last = NoCall
    /\ cachePc = "named"

\* ns(name)
CallName ==
    /\ cachePc \in {"named", "fetched"}
    /\ \E name \in CacheNames : nsName' = name
    /\ cachePc' = "named"
    /\ UNCHANGED <<nsForce, disk, last>>
    /\ UNCHANGED cacheOthers

\* ns.fetch(network, alias=alias, force=force)
FetchCall ==
    /\ cachePc \in {"named", "fetched"}
    /\ \E network \in CacheNames \cup {<<>>} :
       \E alias \in CacheNames \cup {<<>>} :
       \E force \in ForceArgs :
       \E ok \in BOOLEAN :
          LET r == Fetch([name |-> nsName, force |-> nsForce], disk,
                         network, alias, force, NoKwds, ok)
          IN /\ disk' = r.disk
             /\ last' = [network |-> network, alias |-> alias, force |-> force,
                         kwds |-> NoKwds,
                         requested |-> r.requested, raised |-> r.raised,
                         ret |-> r.ret, before |-> disk]
    /\ cachePc' = "fetched"
    /\ UNCHANGED <<nsName, nsForce>>
    /\ UNCHANGED cacheOthers

\* ns.fetch(**meta, label=label, postprocess=postprocess, force=force)
FetchWithKwds ==
    /\ cachePc \in {"named", "fetched"}
    /\ \E kwds \in Kwds :
       \E force \in ForceArgs :
       \E ok \in BOOLEAN :
          LET r == Fetch([name |-> nsName, force |-> nsForce], disk,
                         <<>>, <<>>, force, kwds, ok)
          IN /\ disk' = r.disk
             /\ last' = [network |-> <<>>, alias |-> <<>>, force |-> force,
                         kwds |-> kwds,
                         requested |-> r.requested, raised |-> r.raised,
                         ret |-> r.ret, before |-> disk]
    /\ cachePc' = "fetched"
    /\ UNCHANGED <<nsName, nsForce>>
    /\ UNCHANGED cacheOthers

\* The name of the directory list_graphs and load_graph are given.
DatasetName == <<"d">>

RtIdle ==
    /\ rtName = <<>>
    /\ rtNetwork = <<>>
    /\ rtAlias = <<>>
    /\ rtDir = EmptyDir
    /\ rtAsked = <<>>
    /\ listing = {}
    /\ opened = <<>>
    /\ rtPc = "idle"

\* ns = Netzschleuder(DATA/dataset, name) on a new directory
RtInit ==
    /\ rtName \in Strings(MaxNameLen) \ {<<>>}
    /\ rtNetwork \in Strings(MaxNameLen)
    /\ rtAlias \in Strings(MaxNameLen)
    /\ rtDir = EmptyDir
    /\ rtAsked = <<>>
    /\ listing = {}
    /\ opened = <<>>
    /\ rtPc = "start"

\* ns.fetch(network, alias=alias)
RtFetch ==
    /\ rtPc = "start"
    /\ rtDir' = Fetch([name |-> rtName, force |-> FALSE], rtDir,
                      rtNetwork, rtAlias, "None", NoKwds, TRUE).disk
    /\ rtPc' = "fetched"
    /\ UNCHANGED <<rtName, rtNetwork, rtAlias, rtAsked, listing, opened>>
    /\ UNCHANGED rtOthers

\* names = list_graphs(dataset)
RtList ==
    /\ rtPc = "fetched"
    /\ listing' = ListGraphs(rtDir)
    /\ rtPc' = "listed"
    /\ UNCHANGED <<rtName, rtNetwork, rtAlias, rtDir, rtAsked, opened>>
    /\ UNCHANGED rtOthers

\* load_graph(dataset, name) for a name of the listing
RtLoadListed ==
    /\ rtPc = "listed"
    /\ \E name \in listing :
          /\ rtAsked' = name
          /\ opened' = LoadPath(DatasetName, name)
    /\ rtPc' = "loaded"
    /\ UNCHANGED <<rtName, rtNetwork, rtAlias, rtDir, listing>>
    /\ UNCHANGED rtOthers

\* load_graph(dataset, name) for the name of a dataset of one network
RtLoadNamed ==
    /\ rtPc = "listed"
    /\ \E name \in Strings(MaxNameLen) \ {<<>>} :
          /\ rtAsked' = name
          /\ opened' = LoadPath(DatasetName, name)
    /\ rtPc' = "loaded"
    /\ UNCHANGED <<rtName, rtNetwork, rtAlias, rtDir, listing>>
    /\ UNCHANGED rtOthers

(***************************************************************************)
(* EMPIRICAL P-VALUES (Inference.estimate_pvalues of the pathcensus        *)
(* package, as the scripts call it)                                        *)
(*                                                                         *)
(* The tables hold one column; an entity is a key of the observed table.   *)
(***************************************************************************)
\* The values a statistic takes in the tables.
StatValues == {0, 1}

\* The number of the first n null samples that are at least the observed o.
RECURSIVE CountExtreme(_, _, _)
CountExtreme(o, smp, n) ==
    IF n = 0 THEN 0
    ELSE (IF smp[n] >= o THEN 1 ELSE 0) + CountExtreme(o, smp, n - 1)

\* The fraction of the null samples at least as extreme as o, in units.
RawFraction(o, smp) == (CountExtreme(o, smp, Len(smp)) * POne) \div Len(smp)

\* Inference.estimate_pvalues(observed, null, alpha=alpha, adjust=adjust)
EstimatePvalueTable(observed, nulls, adjust) ==
    LET raw == [v \in DOMAIN observed |-> RawFraction(observed[v], nulls[v])]
    IN IF adjust THEN BenjaminiHochberg(raw) ELSE raw

\* estimate_pvalues called with adjust=False by every script.
AdjustArgFalse(script) == FALSE

\* The argument adjust of the script's call: adjust=True in the domains and
\* social scripts, adjust=False in the proteins script.
AdjustArg(script) == script # "proteins"

\* pvals <= alpha
Flags(pv, alpha) == [v \in DOMAIN pv |-> pv[v] <= alpha]

EstIdle ==
    /\ eScript = "none"
    /\ eObs = <<>>
    /\ eNull = <<>>
    /\ ePvals = <<>>
    /\ eFlags = <<>>
    /\ ePc = "idle"

\* data, null = infer.init_comparison(...)
EstInit ==
    /\ eScript \in CalScripts
    /\ \E n \in 1..MaxNodes :
          /\ eObs \in [1..n -> StatValues]
          /\ eNull \in [1..n -> [1..NSamples -> StatValues]]
    /\ ePvals = <<>>
    /\ eFlags = <<>>
    /\ ePc = "comparison"

\* pvals = infer.estimate_pvalues(...); sig = (pvals <= alpha)
EstimateTable ==
    /\ ePc = "comparison"
    /\ LET pv == EstimatePvalueTable(eObs, eNull, AdjustArg(eScript))
       IN /\ ePvals' = pv
          /\ eFlags' = Flags(pv, Alphas[1] * Unit)
    /\ ePc' = "done"
    /\ UNCHANGED <<eScript, eObs, eNull>>
    /\ UNCHANGED estOthers

(***************************************************************************)
(* get_root_path (src/utils.py)                                            *)
(*                                                                         *)
(* An absolute path is the sequence of its components below the            *)
(* filesystem root, which is <<>>; a component is a string.                *)
(***************************************************************************)
\* The components of the paths: "a", "r" and "r.a".
PathComponents == {<<"a">>, <<"r">>, <<"r", ".", "a">>}

\* The directory names looked for.
RootDirs == {<<"r">>, <<"r", ".", "a">>}

\* The paths of at most n components.
Paths(n) == UNION {[1..k -> PathComponents] : k \in 0..n}

\* path.name, which is "" for the filesystem root.
PathName(path) == IF path = <<>> THEN <<>> ELSE path[Len(path)]

\* The name with its suffix, in the place of the stem.
PathStemWithSuffix(path) == PathName(path)

\* path.stem
PathStem(path) == Stem(PathName(path))

\* path.parent: the filesystem root is its own parent, the same object.
Parent(path) ==
    IF path = <<>> THEN [path |-> path, same |-> TRUE]
    ELSE [path |-> SubSeq(path, 1, Len(path) - 1), same |-> FALSE]

RootIdle ==
    /\ rpOrigin = <<>>
    /\ rpRootDir = <<>>
    /\ rpPath = <<>>
    /\ rpPc = "idle"

\* path = Path(origin).absolute()
RootInit ==
    /\ rpOrigin \in Paths(MaxDepth)
    /\ rpRootDir \in RootDirs
    /\ rpPath = rpOrigin
    /\ rpPc = "loop"

\* An iteration of the loop that goes on: path = path.parent
RootParent ==
    /\ rpPc = "loop"
    /\ PathStem(rpPath) # rpRootDir
    /\ ~Parent(rpPath).same
    /\ rpPath' = Parent(rpPath).path
    /\ UNCHANGED <<rpOrigin, rpRootDir, rpPc>>
    /\ UNCHANGED rootOthers

\* if path is path.parent: raise ValueError
RootRaise ==
    /\ rpPc = "loop"
    /\ PathStem(rpPath) # rpRootDir
    /\ Parent(rpPath).same
    /\ rpPc' = "raised"
    /\ UNCHANGED <<rpOrigin, rpRootDir, rpPath>>
    /\ UNCHANGED rootOthers

\* The loop ends: return path
RootReturn ==
    /\ rpPc = "loop"
    /\ PathStem(rpPath) = rpRootDir
    /\ rpPc' = "returned"
    /\ UNCHANGED <<rpOrigin, rpRootDir, rpPath>>
    /\ UNCHANGED rootOthers

(***************************************************************************)
(* rescale (src/utils.py)                                                  *)
(*                                                                         *)
(* X is a float array. The values rescale computes are fractions with one  *)
(* denominator: the result is [kind, num, den], the i-th value being       *)
(* num[i] / den.                                                           *)
(***************************************************************************)
\* The values of X, and of m0 and m1.
XValues == {0, 1, 2}

MValues == {-1, 0, 1, 2}

\* The arrays of at most n values, with their number of dimensions.
Arrays(n) ==
    {[ndim |-> 1, data |-> d] : d \in UNION {[1..k -> XValues] : k \in 0..n}}
    \cup {[ndim |-> 0, data |-> <<>>], [ndim |-> 2, data |-> <<>>]}

RECURSIVE SeqMin(_, _)
SeqMin(d, n) ==
    IF n = 1 THEN d[1]
    ELSE LET m == SeqMin(d, n - 1) IN IF d[n] < m THEN d[n] ELSE m

RECURSIVE SeqMax(_, _)
SeqMax(d, n) ==
    IF n = 1 THEN d[1]
    ELSE LET m == SeqMax(d, n - 1) IN IF d[n] > m THEN d[n] ELSE m

\* np.clip(x, lo, hi)
Clip(x, lo, hi) == IF x < lo THEN lo ELSE IF x > hi THEN hi ELSE x

Raised(kind) == [kind |-> kind, num |-> <<>>, den |-> 1]

\* if m1 != 1: the factor m1 - m0 is applied.
ScalesUnlessOne(m1) == m1 # 1

\* rescale(X, m0, m1)
Rescale(X, m0, m1) ==
    IF m0 >= m1 THEN Raised("ValueError")
    ELSE IF X.ndim # 1 THEN Raised("AttributeError")
    ELSE IF Len(X.data) = 0 THEN Raised("ValueError")
    ELSE
        LET n == Len(X.data)
            xmin == SeqMin(X.data, n)
            shifted == [i \in 1..n |-> X.data[i] - xmin]
            xmax == SeqMax(shifted, n)
            den == IF xmax # 0 THEN xmax ELSE 1
            factor == IF ScalesUnlessOne(m1) THEN m1 - m0 ELSE 1
            offset == IF m0 # 0 THEN m0 * den ELSE 0
        IN [kind |-> "array",
            num |-> [i \in 1..n |->
                        Clip(shifted[i] * factor + offset, m0 * den, m1 * den)],
            den |-> den]

NoResult == Raised("none")

RsIdle ==
    /\ rsX = [ndim |-> 0, data |-> <<>>]
    /\ rsM0 = 0
    /\ rsM1 = 0
    /\ rsOut = NoResult
    /\ rsPc = "idle"

RsInit ==
    /\ rsX \in Arrays(MaxArray)
    /\ rsM0 \in MValues
    /\ rsM1 \in MValues
    /\ rsOut = NoResult
    /\ rsPc = "call"

\* rescale(X, m0, m1)
RescaleCall ==
    /\ rsPc = "call"
    /\ rsOut' = Rescale(rsX, rsM0, rsM1)
    /\ rsPc' = "done"
    /\ UNCHANGED <<rsX, rsM0, rsM1>>
    /\ UNCHANGED rsOthers

(***************************************************************************)
(* Netzschleuder.networks (src/_ns.py)                                     *)
(*                                                                         *)
(* The list of networks the catalogue holds for a dataset is identified by *)
(* the dataset: [dataset |-> name].                                        *)
(***************************************************************************)
\* requests.get(f"{self.apiurl}/{self.name}").json()["nets"]
NetworksOf(name) == [dataset |-> name]

NotCached == [dataset |-> <<>>]

NoRead == [raised |-> FALSE, nets |-> NotCached]

\* An access to the cached_property networks: the function runs when the
\* instance holds no value for it, and its result is stored in the instance;
\* an exception of the function stores nothing. ok tells whether the request
\* succeeds.
Networks(name, cached, ok) ==
    IF cached # NotCached THEN [raised |-> FALSE, nets |-> cached, cached |-> cached]
    ELSE IF ok THEN [raised |-> FALSE, nets |-> NetworksOf(name),
                     cached |-> NetworksOf(name)]
    ELSE [raised |-> TRUE, nets |-> NotCached, cached |-> NotCached]

NetIdle ==
    /\ netName = <<>>
    /\ netCached = NotCached
    /\ netRead = NoRead
    /\ netPc = "idle"

\* ns = Netzschleuder(datapath, name)
NetInit ==
    /\ netName \in Strings(MaxNameLen) \ {<<>>}
    /\ netCached = NotCached
    /\ netRead = NoRead
    /\ netPc = "named"

\* ns(name): self.name = name
NetCall ==
    /\ netPc \in {"named", "read"}
    /\ \E name \in Strings(MaxNameLen) \ {<<>>} : netName' = name
    /\ netPc' = "named"
    /\ UNCHANGED <<netCached, netRead>>
    /\ UNCHANGED netOthers

\* ns.networks
NetRead ==
    /\ netPc \in {"named", "read"}
    /\ \E ok \in BOOLEAN :
          LET r == Networks(netName, netCached, ok)
          IN /\ netRead' = [raised |-> r.raised, nets |-> r.nets]
             /\ netCached' = r.cached
    /\ netPc' = "read"
    /\ UNCHANGED netName
    /\ UNCHANGED netOthers

(***************************************************************************)
(* DESCRIPTIVE STATISTICS (analyses/4-descriptive)                         *)
(*                                                                         *)
(* Names are sequences of one-character strings.  A graph file of a        *)
(* dataset is [name, domain, n_nodes]: the name list_graphs returns for    *)
(* it, the "domain" attribute of the stored graph and the vertex count of  *)
(* its giant component.  A row of the table is                             *)
(* [domain, group, dataset, network, n_nodes]: the four index levels and   *)
(* one statistic, kept as a fraction [num, den].                           *)
(***************************************************************************)

\* datasets = ["domains", "social"]
DescDatasets == <<"domains", "social">>

\* The names of the graph files: a__a2, a__a10 and b__b.
NetworkNames ==
    {<<"a", "_", "_", "a", "2">>,
     <<"a", "_", "_", "a", "1", "0">>,
     <<"b", "_", "_", "b">>}

\* The "domain" attributes the fetch scripts store.
DomainsOf(name) ==
    IF name = "social" THEN {<<"s">>} ELSE {<<"b">>, <<"s">>}

NodeCounts == {1, 2}

\* The listings of a dataset: up to MaxNetworks files, no name twice.
Listings(name) ==
    {q \in UNION {[1..n -> [name : NetworkNames, domain : DomainsOf(name),
                            n_nodes : NodeCounts]] : n \in 0..MaxNetworks} :
        \A i, j \in DOMAIN q : q[i].name = q[j].name => i = j}

\* s.split(sep) for a separator of several characters.
RECURSIVE SplitOn(_, _)
SplitOn(s, sep) ==
    LET at == {i \in 1..(Len(s) - Len(sep) + 1) :
                  SubSeq(s, i, i + Len(sep) - 1) = sep}
    IN IF at = {} THEN <<s>>
       ELSE LET i == Min(at)
            IN <<SubSeq(s, 1, i - 1)>>
                   \o SplitOn(SubSeq(s, i + Len(sep), Len(s)), sep)

Digits == {"0", "1", "2"}

\* The code points of the characters, as far as their order goes.
CharCode(c) ==
    CASE c = "0" -> 48
      [] c = "1" -> 49
      [] c = "2" -> 50
      [] c = "_" -> 95
      [] c = "a" -> 97
      [] c = "b" -> 98
      [] c = "s" -> 115

\* int(digits)
RECURSIVE DigitsValue(_)
DigitsValue(ds) ==
    IF ds = <<>> THEN 0
    ELSE 10 * DigitsValue(DropLast(ds)) + (CharCode(ds[Len(ds)]) - 48)

\* The runs of digits and of other characters of s, the digits as numbers.
RECURSIVE NatTokens(_)
NatTokens(s) ==
    IF s = <<>> THEN <<>>
    ELSE LET d == s[1] \in Digits
             span == Maximum({n \in 1..Len(s) :
                        \A i \in 1..n : (s[i] \in Digits) = d})
             chunk == SubSeq(s, 1, span)
             token == IF d THEN [isnum |-> TRUE, num |-> DigitsValue(chunk),
                                 text |-> <<>>]
                      ELSE [isnum |-> FALSE, num |-> 0, text |-> chunk]
         IN <<token>> \o NatTokens(SubSeq(s, span + 1, Len(s)))

\* natsort_keygen()(s): text and numbers alternate, starting with a text,
\* which is empty when s starts with a digit.
NatKey(s) ==
    IF s # <<>> /\ s[1] \in Digits
    THEN <<[isnum |-> FALSE, num |-> 0, text |-> <<>>]>> \o NatTokens(s)
    ELSE NatTokens(s)

\* str < str
RECURSIVE TextLess(_, _)
TextLess(a, b) ==
    IF b = <<>> THEN FALSE
    ELSE IF a = <<>> THEN TRUE
    ELSE IF a[1] # b[1] THEN CharCode(a[1]) < CharCode(b[1])
    ELSE TextLess(Tail(a), Tail(b))

TokenLess(a, b) ==
    IF a.isnum THEN a.num < b.num ELSE TextLess(a.text, b.text)

\* tuple < tuple
RECURSIVE KeyLess(_, _)
KeyLess(a, b) ==
    IF b = <<>> THEN FALSE
    ELSE IF a = <<>> THEN TRUE
    ELSE IF a[1] # b[1] THEN TokenLess(a[1], b[1])
    ELSE KeyLess(Tail(a), Tail(b))

\* The keys of a row, one for each of the columns sorted by; "group" is the
\* same in every row of one call.
RowKey(row) == <<NatKey(row.domain), NatKey(row.dataset), NatKey(row.network)>>

\* The order of sort_values(keys, key=natsort_keygen()): by the first
\* column whose keys differ.
RowLess(r, s) ==
    LET a == RowKey(r)
        b == RowKey(s)
    IN \E i \in 1..3 :
           /\ \A j \in 1..(i - 1) : a[j] = b[j]
           /\ KeyLess(a[i], b[i])

\* The sort keeps rows with equal keys in their order.
InsertRow(sorted, row) ==
    LET k == Cardinality({i \in DOMAIN sorted : ~RowLess(row, sorted[i])})
    IN SubSeq(sorted, 1, k) \o <<row>> \o SubSeq(sorted, k + 1, Len(sorted))

RECURSIVE SortValues(_)
SortValues(rows) ==
    IF rows = <<>> THEN <<>>
    ELSE InsertRow(SortValues(DropLast(rows)), rows[Len(rows)])

\* get_network_stats(name, network) for the file fn; the unpacking of
\* network.split("__") raises unless there are two parts.
SplitRaises(fn) == Len(SplitOn(fn.name, Sep)) # 2

GetNetworkStats(name, fn) ==
    LET parts == SplitOn(fn.name, Sep)
    IN [domain |-> fn.domain,
        group |-> name,
        dataset |-> parts[1],
        network |-> IF parts[2] # parts[1] THEN parts[2] ELSE <<>>,
        n_nodes |-> [num |-> fn.n_nodes, den |-> 1]]

RECURSIVE SumNodes(_)
SumNodes(rows) ==
    IF rows = <<>> THEN 0
    ELSE rows[1].n_nodes.num + SumNodes(Tail(rows))

Average == <<"A", "v", "e", "r", "a", "g", "e">>

\* data.set_index(keys).mean(), then the four index levels of the row.
AverageRow(name, rows) ==
    [domain |-> <<>>,
     group |-> name,
     dataset |-> <<>>,
     network |-> Average,
     n_nodes |-> [num |-> SumNodes(rows), den |-> Len(rows)]]

\* get_descriptive_stats without the sort_values.
GetDescriptiveStatsUnsorted(name, fnames) ==
    LET data == [i \in DOMAIN fnames |-> GetNetworkStats(name, fnames[i])]
    IN IF fnames = <<>> \/ \E i \in DOMAIN fnames : SplitRaises(fnames[i])
       THEN [raised |-> TRUE, rows |-> <<>>]
       ELSE [raised |-> FALSE, rows |-> Append(data, AverageRow(name, data))]

\* get_descriptive_stats(name), fnames being list_graphs(name); pd.concat
\* raises on an empty list.
GetDescriptiveStats(name, fnames) ==
    LET data == [i \in DOMAIN fnames |-> GetNetworkStats(name, fnames[i])]
    IN IF fnames = <<>> \/ \E i \in DOMAIN fnames : SplitRaises(fnames[i])
       THEN [raised |-> TRUE, rows |-> <<>>]
       ELSE [raised |-> FALSE,
             rows |-> Append(SortValues(data), AverageRow(name, data))]

\* data.xs(dataset, level="group"): the rows of the group, in their order.
RECURSIVE Xs(_, _)
Xs(data, dset) ==
    IF data = <<>> THEN <<>>
    ELSE IF data[1].group = dset THEN <<data[1]>> \o Xs(Tail(data), dset)
    ELSE Xs(Tail(data), dset)

\* to_latex(data, dataset), as what it reads from the table: N, the rows
\* printed as networks and the row printed in bold as the average.
ToLatex(data, dset) ==
    LET sel == Xs(data, dset)
    IN [dataset |-> dset,
        N |-> Len(sel) - 1,
        mid |-> DropLast(sel),
        avg |-> sel[Len(sel)]]

NoLatex == [dataset |-> "", N |-> 0, mid |-> <<>>, avg |-> <<>>]

DescIdle ==
    /\ descFiles = <<>>
    /\ descTable = <<>>
    /\ descLatex = NoLatex
    /\ descDone = 0
    /\ descPc = "idle"

DescInit ==
    /\ descFiles \in {<<d, s>> : d \in Listings(DescDatasets[1]),
                                s \in Listings(DescDatasets[2])}
    /\ descTable = <<>>
    /\ descLatex = NoLatex
    /\ descDone = 0
    /\ descPc = "loop"

\* One turn of the loop over datasets: the rows of the next dataset are
\* added to the table.
DescribeDataset ==
    /\ descPc = "loop"
    /\ descDone < Len(DescDatasets)
    /\ LET k == descDone + 1
           call == GetDescriptiveStats(DescDatasets[k], descFiles[k])
       IN IF call.raised
          THEN /\ descPc' = "raised"
               /\ UNCHANGED <<descTable, descDone>>
          ELSE /\ descTable' = descTable \o call.rows
               /\ descDone' = k
               /\ descPc' = descPc
    /\ UNCHANGED <<descFiles, descLatex>>
    /\ UNCHANGED descOthers

\* joblib.dump(data, ...)
DescDump ==
    /\ descPc = "loop"
    /\ descDone = Len(DescDatasets)
    /\ descPc' = "dumped"
    /\ UNCHANGED <<descFiles, descTable, descLatex, descDone>>
    /\ UNCHANGED descOthers

\* to_latex(data, dataset) on the table that was dumped.
DescToLatex ==
    /\ descPc = "dumped"
    /\ \E k \in 1..Len(DescDatasets) :
           descLatex' = ToLatex(descTable, DescDatasets[k])
    /\ descPc' = "latex"
    /\ UNCHANGED <<descFiles, descTable, descDone>>
    /\ UNCHANGED descOthers

(***************************************************************************)
(* GRAPH METADATA (prepare_data.py of the analyses)                        *)
(*                                                                         *)
(* The fields n_nodes and density the scripts store with the results of    *)
(* a graph.  The graph is the simple undirected graph the script analyses; *)
(* a field is a fraction [num, den].                                       *)
(***************************************************************************)

MetaScripts == {"domains", "social", "proteins", "performance"}

\* graph.vcount()
VCount(g) == Cardinality(g.verts)

\* graph.ecount()
ECount(g) ==
    Cardinality({p \in Pairs(g.verts) : p[1] < p[2] /\ g.edges[p] > 0})

\* graph.density(): the edges over the pairs of vertices, NaN for a graph
\* of one vertex.
Density(g) == Ratio(2 * ECount(g), VCount(g) * (VCount(g) - 1))

\* The value stored under "density": graph.vcount() in get_metadata of
\* 3-proteins, graph.density() in the other scripts.
DensityField(script, g) ==
    IF script = "proteins" THEN [num |-> VCount(g), den |-> 1]
    ELSE Density(g)

\* The fields n_nodes and density of the metadata of graph g.
Metadata(script, g) ==
    [n_nodes |-> [num |-> VCount(g), den |-> 1],
     density |-> DensityField(script, g)]

NoMetadata == [n_nodes |-> NaN, density |-> NaN]

MdIdle ==
    /\ mdScript = ""
    /\ mdGraph = NoGraph
    /\ mdOut = NoMetadata
    /\ mdPc = "idle"

MdInit ==
    /\ mdScript \in MetaScripts
    /\ \E n \in 1..MaxMetaVertices : mdGraph \in SimpleGraphsOn(n)
    /\ mdOut = NoMetadata
    /\ mdPc = "graph"

\* The script builds the metadata of the graph.
GetMetadata ==
    /\ mdPc = "graph"
    /\ mdOut' = Metadata(mdScript, mdGraph)
    /\ mdPc' = "done"
    /\ UNCHANGED <<mdScript, mdGraph>>
    /\ UNCHANGED mdOthers

(***************************************************************************)
(* SPECIFICATIONS                                                          *)
(***************************************************************************)
Init ==
    PipeInit /\ PrepIdle /\ CenIdle /\ CalIdle /\ PvIdle /\ CacheIdle /\
    RtIdle /\ EstIdle /\ RootIdle /\ RsIdle /\ NetIdle /\ DescIdle /\ MdIdle

PipeNext ==
    \/ LoadNetworks
    \/ SetSeed
    \/ BeginGraph
    \/ Fit
    \/ Validate
    \/ Compare
    \/ SampleOne
    \/ Dump
    \/ Rerun

Next == PipeNext

Spec == Init /\ [][Next]_vars

InitPreprocess ==
    PrepInit /\ PipeIdle /\ CenIdle /\ CalIdle /\ PvIdle /\ CacheIdle /\
    RtIdle /\ EstIdle /\ RootIdle /\ RsIdle /\ NetIdle /\ DescIdle /\ MdIdle

NextPreprocess ==
    \/ Preprocess
    \/ LargestComponent

SpecPreprocess == InitPreprocess /\ [][NextPreprocess]_vars

InitCensus ==
    CenInit /\ PipeIdle /\ PrepIdle /\ CalIdle /\ PvIdle /\ CacheIdle /\
    RtIdle /\ EstIdle /\ RootIdle /\ RsIdle /\ NetIdle /\ DescIdle /\ MdIdle

NextCensus == Statistics

SpecCensus == InitCensus /\ [][NextCensus]_vars

InitCalibrate ==
    CalInit /\ PipeIdle /\ PrepIdle /\ CenIdle /\ PvIdle /\ CacheIdle /\
    RtIdle /\ EstIdle /\ RootIdle /\ RsIdle /\ NetIdle /\ DescIdle /\ MdIdle

NextCalibrate == Calibrate

SpecCalibrate == InitCalibrate /\ [][NextCalibrate]_vars

InitPvalues ==
    PvInit /\ PipeIdle /\ PrepIdle /\ CenIdle /\ CalIdle /\ CacheIdle /\
    RtIdle /\ EstIdle /\ RootIdle /\ RsIdle /\ NetIdle /\ DescIdle /\ MdIdle

NextPvalues ==
    \/ EstimatePvalues
    \/ AdjustAlpha
    \/ UnpackSigs

SpecPvalues == InitPvalues /\ [][NextPvalues]_vars

InitCache ==
    CacheInit /\ PipeIdle /\ PrepIdle /\ CenIdle /\ CalIdle /\ PvIdle /\
    RtIdle /\ EstIdle /\ RootIdle /\ RsIdle /\ NetIdle /\ DescIdle /\ MdIdle

NextCache ==
    \/ CallName
    \/ FetchCall

SpecCache == InitCache /\ [][NextCache]_vars

InitRoundTrip ==
    RtInit /\ PipeIdle /\ PrepIdle /\ CenIdle /\ CalIdle /\ PvIdle /\
    CacheIdle /\ EstIdle /\ RootIdle /\ RsIdle /\ NetIdle /\ DescIdle /\
    MdIdle

NextRoundTrip ==
    \/ RtFetch
    \/ RtList
    \/ RtLoadListed
    \/ RtLoadNamed

SpecRoundTrip == InitRoundTrip /\ [][NextRoundTrip]_vars

InitEstimate ==
    EstInit /\ PipeIdle /\ PrepIdle /\ CenIdle /\ CalIdle /\ PvIdle /\
    CacheIdle /\ RtIdle /\ RootIdle /\ RsIdle /\ NetIdle /\ DescIdle /\
    MdIdle

NextEstimate == EstimateTable

SpecEstimate == InitEstimate /\ [][NextEstimate]_vars

InitRootPath ==
    RootInit /\ PipeIdle /\ PrepIdle /\ CenIdle /\ CalIdle /\ PvIdle /\
    CacheIdle /\ RtIdle /\ EstIdle /\ RsIdle /\ NetIdle /\ DescIdle /\
    MdIdle

NextRootPath ==
    \/ RootParent
    \/ RootRaise
    \/ RootReturn

\* The function runs on until it returns or raises.
SpecRootPath == InitRootPath /\ [][NextRootPath]_vars /\ WF_vars(NextRootPath)

InitRescale ==
    RsInit /\ PipeIdle /\ PrepIdle /\ CenIdle /\ CalIdle /\ PvIdle /\
    CacheIdle /\ RtIdle /\ EstIdle /\ RootIdle /\ NetIdle /\ DescIdle /\
    MdIdle

NextRescale == RescaleCall

SpecRescale == InitRescale /\ [][NextRescale]_vars

InitNetworks ==
    NetInit /\ PipeIdle /\ PrepIdle /\ CenIdle /\ CalIdle /\ PvIdle /\
    CacheIdle /\ RtIdle /\ EstIdle /\ RootIdle /\ RsIdle /\ DescIdle /\
    MdIdle

NextNetworks ==
    \/ NetCall
    \/ NetRead

SpecNetworks == InitNetworks /\ [][NextNetworks]_vars

InitFetchKwds ==
    CacheInit /\ PipeIdle /\ PrepIdle /\ CenIdle /\ CalIdle /\ PvIdle /\
    RtIdle /\ EstIdle /\ RootIdle /\ RsIdle /\ NetIdle /\ DescIdle /\ MdIdle

NextFetchKwds == FetchWithKwds

SpecFetchKwds == InitFetchKwds /\ [][NextFetchKwds]_vars

InitDescriptive ==
    DescInit /\ PipeIdle /\ PrepIdle /\ CenIdle /\ CalIdle /\ PvIdle /\
    CacheIdle /\ RtIdle /\ EstIdle /\ RootIdle /\ RsIdle /\ NetIdle /\
    MdIdle

NextDescriptive ==
    \/ DescribeDataset
    \/ DescDump
    \/ DescToLatex

SpecDescriptive == InitDescriptive /\ [][NextDescriptive]_vars

InitMetadata ==
    MdInit /\ PipeIdle /\ PrepIdle /\ CenIdle /\ CalIdle /\ PvIdle /\
    CacheIdle /\ RtIdle /\ EstIdle /\ RootIdle /\ RsIdle /\ NetIdle /\
    DescIdle

NextMetadata == GetMetadata

SpecMetadata == InitMetadata /\ [][NextMetadata]_vars

(***************************************************************************)
(* CLAIMS ABOUT THE ANALYSIS SCRIPTS (checked under Spec)                  *)
(***************************************************************************)

\* C1: in every script that draws null samples, fit() and validate() have
\* both completed on the model before a sample is drawn from it. The
\* performance script calls UBCM(graph).fit().sample_one() with no validate().
C1_SampledOnlyAfterFitAndValidate ==
    \A i \in 1..Len(samples) : samples[i].fitted /\ samples[i].validated

\* C3: a fit() or validate() that raises stops the run: the failing graph gets
\* no comparison, no sample and no result, nothing is written; a comparison is
\* only ever computed for a graph whose fit and validation succeeded, and the
\* scripts that compare write their output only after every graph of the
\* dataset was fitted, validated and compared.
C3_FailureStopsRun ==
    /\ \A i \in compared : dataset[i].fit = "ok"
    /\ \A i \in 1..Len(results) :
         /\ ~FitRaises(dataset[results[i].g])
         /\ pipeline \in ComparisonPipelines => dataset[results[i].g].fit = "ok"
    /\ pc = "aborted" =>
         /\ ~written
         /\ dataset[idx].fit # "ok"
         /\ idx \notin compared
         /\ \A i \in 1..Len(samples) : samples[i].g # idx
         /\ \A i \in 1..Len(results) : results[i].g # idx
    /\ written =>
         /\ pc = "done"
         /\ \A i \in 1..Len(dataset) : dataset[i].fit # "raise"
         /\ pipeline \in ComparisonPipelines =>
              /\ \A i \in 1..Len(dataset) : dataset[i].fit = "ok"
              /\ compared = 1..Len(dataset)
              /\ Len(output) = Len(dataset)

\* C3 witness: validate() raised on the second graph, after the first graph
\* had been compared.
C3_Witness ==
    /\ pc = "aborted"
    /\ pipeline \in ComparisonPipelines
    /\ dataset[idx].fit = "poor"
    /\ compared = {1}
    /\ idx = 2

\* The null part of an output: what was drawn for each graph, without the
\* measured run times.
NullPart(out) == [i \in 1..Len(out) |-> [g |-> out[i].g, null |-> out[i].null]]

\* C7 as stated: the seed is set exactly once, before the first fit or sample,
\* and a second run on the same dataset in the same order draws the same null
\* samples and ends with the same output.
C7_SameSeedSameOutput ==
    /\ seedCalls <= 1
    /\ (model # NoModel \/ samples # <<>>) => seedCalls = 1
    /\ (run = 2 /\ pc \in {"done", "aborted"}) =>
         /\ samples = prevSamples
         /\ <<written, output>> = prevOutput

\* C7 amended: as C7, but identical outputs only for the domains, social and
\* proteins scripts; the output of the performance script has the same null
\* samples and measured run times that may differ.
C7_SameSeedSameSamples ==
    /\ seedCalls <= 1
    /\ (model # NoModel \/ samples # <<>>) => seedCalls = 1
    /\ (run = 2 /\ pc \in {"done", "aborted"}) =>
         /\ samples = prevSamples
         /\ written = prevOutput[1]
         /\ NullPart(output) = NullPart(prevOutput[2])
         /\ pipeline \in ComparisonPipelines => output = prevOutput[2]

\* C7 witness: the re-run of a script has finished and written its output,
\* after drawing samples for two graphs.
C7_Witness ==
    /\ run = 2
    /\ pc = "done"
    /\ written
    /\ Len(output) = 2
    /\ Len(samples) >= 2

(***************************************************************************)
(* CLAIMS ABOUT preprocess_graph (checked under SpecPreprocess)            *)
(***************************************************************************)

\* The pairs <<u, v>> such that v can be reached from u in the input graph g
\* with directions, repetitions and self-loops ignored (Warshall's closure
\* with every vertex as the pivot once).
RECURSIVE RefClosure(_, _, _)
RefClosure(R, K, V) ==
    IF K = {} THEN R
    ELSE LET k == CHOOSE x \in K : TRUE
         IN RefClosure(R \cup {p \in Pairs(V) : <<p[1], k>> \in R /\ <<k, p[2]>> \in R},
                       K \ {k}, V)

RefReach(g) ==
    RefClosure({p \in Pairs(g.verts) : p[1] = p[2] \/ Adjacent(g, p[1], p[2])},
               g.verts, g.verts)

RefComponent(g, v) == {w \in g.verts : <<v, w>> \in RefReach(g)}

\* C2: preprocess_graph with default arguments returns, for every input graph
\* with at least one vertex, an undirected graph without self-loops and
\* without multi-edges that is connected and is the subgraph induced by a
\* largest connected component of the simplified undirected input.
C2_PreprocessedGraph ==
    prepPc = "done" =>
        /\ ~prepared.directed
        /\ \A p \in Pairs(prepared.verts) :
             /\ prepared.edges[p] <= 1
             /\ p[1] >= p[2] => prepared.edges[p] = 0
             /\ p[1] < p[2] =>
                  (prepared.edges[p] = 1 <=> Adjacent(graph, p[1], p[2]))
        /\ prepared.verts # {}
        /\ \A u \in prepared.verts : RefComponent(prepared, u) = prepared.verts
        /\ \E v \in graph.verts : prepared.verts = RefComponent(graph, v)
        /\ \A w \in graph.verts :
             Cardinality(RefComponent(graph, w)) <= Cardinality(prepared.verts)

\* C2 witness: a directed, disconnected input with a self-loop and a pair of
\* mutual edges has been preprocessed.
C2_Witness ==
    /\ prepPc = "done"
    /\ graph.directed
    /\ \E v \in graph.verts : graph.edges[<<v, v>>] > 0
    /\ \E u \in graph.verts : \E v \in graph.verts :
         u # v /\ graph.edges[<<u, v>>] > 0 /\ graph.edges[<<v, u>>] > 0
    /\ prepared.verts # graph.verts
    /\ Cardinality(prepared.verts) = 2

\* The pairs <<u, v>> such that v can be reached from u in g along its
\* edges: in their direction in a directed graph.
RefReachAlong(g) ==
    RefClosure({p \in Pairs(g.verts) :
                    \/ p[1] = p[2]
                    \/ g.edges[p] > 0
                    \/ (~g.directed /\ g.edges[<<p[2], p[1]>>] > 0)},
               g.verts, g.verts)

\* The component of v: the vertices v reaches and is reached from.
RefComponentAlong(g, v) ==
    {w \in g.verts : <<v, w>> \in RefReachAlong(g) /\ <<w, v>> \in RefReachAlong(g)}

\* C14: get_largest_component returns the subgraph induced by a component
\* of the graph that no component exceeds in size, and that is the first of
\* that size in the order the components are enumerated in.
C14_LargestComponent ==
    prepPc = "largest" =>
        LET comps == Components(graph)
        IN /\ prepared.directed = graph.directed
           /\ DOMAIN prepared.edges = Pairs(prepared.verts)
           /\ \A p \in Pairs(prepared.verts) : prepared.edges[p] = graph.edges[p]
           /\ \E v \in graph.verts : prepared.verts = RefComponentAlong(graph, v)
           /\ \A w \in graph.verts :
                Cardinality(RefComponentAlong(graph, w)) <= Cardinality(prepared.verts)
           /\ \E i \in 1..Len(comps) :
                /\ comps[i] = prepared.verts
                /\ \A j \in 1..(i - 1) :
                      Cardinality(comps[j]) < Cardinality(prepared.verts)

\* C14 witness: the graph has another component of the size of the one
\* returned, which has two vertices.
C14_Witness ==
    /\ prepPc = "largest"
    /\ Cardinality(prepared.verts) = 2
    /\ \E w \in graph.verts \ prepared.verts :
            Cardinality(RefComponentAlong(graph, w)) = 2

(***************************************************************************)
(* CLAIMS ABOUT PathCensus (checked under SpecCensus)                      *)
(***************************************************************************)

\* Brute-force triad count: the sets of three vertices with k edges among
\* them (k = 3: a triangle, k = 2: an open wedge).
Triads(g, k) ==
    {t \in SUBSET g.verts :
        /\ Cardinality(t) = 3
        /\ Cardinality({e \in SUBSET t :
               Cardinality(e) = 2 /\ \A a \in e : \A b \in e : a = b \/ Adjacent(g, a, b)}) = k}

IsCycle5(g) ==
    /\ Cardinality(g.verts) = 5
    /\ \A v \in g.verts : Degree(g, v) = 2

IsComplete(g) ==
    /\ Cardinality(g.verts) >= 3
    /\ \A u \in g.verts : \A v \in g.verts : u = v \/ Adjacent(g, u, v)

\* C10: on every simple undirected graph, the similarity of a node of degree
\* >= 2 is a ratio in [0, 1] and that of a node of degree < 2 is NaN; the
\* global similarity is 3 x triangles / wedges of the brute-force triad count
\* (NaN without wedges), 0 on the 5-cycle and 1 on every complete graph.
C10_Similarity ==
    cenPc = "done" =>
        LET triangles == Cardinality(Triads(cgraph, 3))
            wedges == 3 * triangles + Cardinality(Triads(cgraph, 2))
        IN /\ \A v \in cgraph.verts :
                IF Degree(cgraph, v) < 2 THEN census.sim[v] = NaN
                ELSE /\ census.sim[v] # NaN
                     /\ census.sim[v].den > 0
                     /\ 0 <= census.sim[v].num
                     /\ census.sim[v].num <= census.sim[v].den
           /\ IF wedges = 0 THEN census.global = NaN
              ELSE /\ census.global # NaN
                   /\ census.global.num * wedges = 3 * triangles * census.global.den
           /\ IsCycle5(cgraph) => census.global # NaN /\ census.global.num = 0
           /\ IsComplete(cgraph) =>
                census.global # NaN /\ census.global.num = census.global.den

\* C10 witness: statistics were computed on a graph with a node of degree 1
\* and a node whose similarity is strictly between 0 and 1.
C10_Witness ==
    /\ cenPc = "done"
    /\ \E v \in cgraph.verts : Degree(cgraph, v) = 1
    /\ \E v \in cgraph.verts :
         /\ census.sim[v] # NaN
         /\ 0 < census.sim[v].num
         /\ census.sim[v].num < census.sim[v].den

(***************************************************************************)
(* CLAIMS ABOUT THE CALIBRATED COEFFICIENTS (checked under SpecCalibrate)  *)
(***************************************************************************)

\* The log-ratio of sample r in column c is finite: neither value is
\* missing or zero.
FiniteCell(r, c) == obs[c].kind = "pos" /\ null[r][c].kind = "pos"

\* The samples whose log-ratio enters the mean of column c: those with a
\* finite log-ratio in c (domains), or in every column (social, proteins).
KeptRows(c) ==
    IF calScript = "domains"
    THEN {r \in 1..Len(null) : FiniteCell(r, c)}
    ELSE {r \in 1..Len(null) : \A d \in Cols : FiniteCell(r, d)}

RECURSIVE SumExps(_, _)
SumExps(S, c) ==
    IF S = {} THEN 0
    ELSE LET r == CHOOSE x \in S : TRUE
         IN (obs[c].e - null[r][c].e) + SumExps(S \ {r}, c)

\* C4: every non-finite log-ratio is left out of the aggregation: the
\* calibrated value of a column is the mean of the finite log-ratios of the
\* samples kept, it is never +inf or -inf, and it is NaN, not zero, when no
\* finite log-ratio is left.
C4_NonFiniteExcluded ==
    calPc = "done" =>
        \A c \in Cols :
            /\ cdata[c].kind \in {"nan", "fin"}
            /\ cdata[c].kind = "nan" <=> KeptRows(c) = {}
            /\ KeptRows(c) # {} =>
                 /\ cdata[c].den = Cardinality(KeptRows(c))
                 /\ cdata[c].num = SumExps(KeptRows(c), c)

\* C4 witness: a column had a +inf log-ratio (a zero null value under a
\* positive observed value) and a finite one, and was aggregated.
C4_Witness ==
    /\ calPc = "done"
    /\ \E c \in Cols :
         /\ obs[c].kind = "pos"
         /\ \E r \in 1..Len(null) : null[r][c].kind = "zero"
         /\ cdata[c].kind = "fin"

RECURSIVE Pow2(_)
Pow2(k) == IF k = 0 THEN 1 ELSE 2 * Pow2(k - 1)

RECURSIVE Power(_, _)
Power(x, k) == IF k = 0 THEN 1 ELSE x * Power(x, k - 1)

\* A positive value as an integer: 2^e in units of the smallest value.
Scaled(v) == Pow2(v.e + 1)

RECURSIVE SumNull(_, _)
SumNull(S, c) ==
    IF S = {} THEN 0
    ELSE LET r == CHOOSE x \in S : TRUE
         IN Scaled(null[r][c]) + SumNull(S \ {r}, c)

RECURSIVE ProdNull(_, _)
ProdNull(S, c) ==
    IF S = {} THEN 1
    ELSE LET r == CHOOSE x \in S : TRUE
         IN Scaled(null[r][c]) * ProdNull(S \ {r}, c)

\* 2^(num/den) = p / q, in integers.
IsLog2(num, den, p, q) ==
    IF num >= 0 THEN Power(p, den) = Power(q, den) * Pow2(num)
    ELSE Power(p, den) * Pow2(-num) = Power(q, den)

AllRows == 1..Len(null)

C6_RawPvaluesUnchanged ==
    /\ [](/\ estimates <= 1
          /\ Len(adjusted) <= Len(Alphas)
          /\ \A i \in 1..Len(adjusted) :
                adjusted[i] = AdjustPvalues(pvals, Alphas[i] * Unit, TRUE).out)
    /\ [][pvPc = "alphas" => pvals' = pvals]_vars

\* C6 witness: the three corrections were made, the first one changed some
\* p-value, and correcting its result again would change it further.
C6_Witness ==
    /\ pvPc = "done"
    /\ Len(adjusted) = 3
    /\ adjusted[1] # pvals
    /\ AdjustPvalues(adjusted[1], Alphas[2] * Unit, TRUE).out # adjusted[1]

\* The corrected p-value of node v in column c is significant at the alpha
\* of iteration i.
Significant(i, v, c) == adjusted[i][v][c] <= Alphas[i] * Unit

\* The nodes counted under each flag in iteration i.
NodesFlagged(i, c) ==
    {v \in DOMAIN adjusted[i] :
        CASE c = "sim" -> Significant(i, v, "sim") /\ ~Significant(i, v, "comp")
          [] c = "comp" -> Significant(i, v, "comp") /\ ~Significant(i, v, "sim")
          [] c = "both" -> Significant(i, v, "sim") /\ Significant(i, v, "comp")
          [] c = "neither" -> ~Significant(i, v, "sim") /\ ~Significant(i, v, "comp")}

\* C18: for every alpha, the four fractions are those of the nodes that are
\* significant in similarity only, in complementarity only, in both and in
\* neither; every node counts in exactly one, so each fraction is in [0, 1]
\* and the four add up to 1.
C18_FlagsPartitionNodes ==
    \A i \in 1..Len(sigs) :
        /\ DOMAIN sigs[i] = {"sim", "comp", "both", "neither"}
        /\ \A c \in DOMAIN sigs[i] :
                /\ sigs[i][c].den = Len(pvals)
                /\ sigs[i][c].num = Cardinality(NodesFlagged(i, c))
                /\ 0 <= sigs[i][c].num
                /\ sigs[i][c].num <= sigs[i][c].den
        /\ sigs[i]["sim"].num + sigs[i]["comp"].num + sigs[i]["both"].num
                + sigs[i]["neither"].num = Len(pvals)

\* C18 witness: at the last alpha one node is significant in both
\* coefficients and another one in similarity only.
C18_Witness ==
    /\ pvPc = "done"
    /\ sigs[3]["both"].num > 0
    /\ sigs[3]["sim"].num > 0

(***************************************************************************)
(* CLAIMS ABOUT Netzschleuder.fetch (checked under SpecCache)              *)
(***************************************************************************)

\* The force flag in effect in the last call.
LastForce == IF last.force = "None" THEN nsForce ELSE last.force = "True"

\* '<name>__<alias, else network, else name>.pkl.gz' of the last call.
LastTarget ==
    nsName \o <<"_", "_">>
           \o (IF last.alias # <<>> THEN last.alias
               ELSE IF last.network # <<>> THEN last.network
               ELSE nsName)
           \o <<".", "p", "k", "l", ".", "g", "z">>

\* C8: a fetch calls download exactly when the force flag in effect is true
\* or the target file is missing, and then the directory is the one before
\* with the target file holding the graph returned; otherwise the directory
\* is unchanged and the graph returned is the one the file held. The target
\* file exists after every fetch that returns.
C8_FetchDownloadsWhenForcedOrMissing ==
    cachePc = "fetched" =>
        /\ last.requested <=> (LastForce \/ LastTarget \notin DOMAIN last.before)
        /\ (last.requested /\ ~last.raised) =>
                /\ DOMAIN disk = DOMAIN last.before \cup {LastTarget}
                /\ disk[LastTarget] = last.ret
                /\ \A f \in DOMAIN last.before :
                        f # LastTarget => disk[f] = last.before[f]
        /\ ~last.requested =>
                /\ ~last.raised
                /\ disk = last.before
                /\ last.ret = last.before[LastTarget]
        /\ ~last.raised => LastTarget \in DOMAIN disk

\* C8 witness: an instance with force=True was called with force=False on a
\* file that exists under an alias, and returned the cached graph.
C8_Witness ==
    /\ cachePc = "fetched"
    /\ nsForce
    /\ last.force = "False"
    /\ last.alias # <<>>
    /\ last.alias # last.network
    /\ ~last.requested
    /\ last.ret # NoFile

(***************************************************************************)
(* CLAIMS ABOUT THE ROUND TRIP (checked under SpecRoundTrip)               *)
(***************************************************************************)

\* The file name without its last seven characters, ".pkl.gz".
WithoutSuffix(f) == SubSeq(f, 1, Len(f) - 7)

\* C9: list_graphs returns exactly the names of the files fetch wrote,
\* without ".pkl.gz"; load_graph of a listed name opens the file of that
\* name, which exists; load_graph of a name without "__" opens
\* <name>__<name>.pkl.gz, which is the file written by a fetch of the
\* dataset <name> without network and alias.
C9_RoundTrip ==
    /\ rtPc \in {"listed", "loaded"} =>
            /\ DOMAIN rtDir # {}
            /\ listing = {WithoutSuffix(f) : f \in DOMAIN rtDir}
    /\ (rtPc = "loaded" /\ rtAsked \in listing) =>
            /\ opened \in DOMAIN rtDir
            /\ WithoutSuffix(opened) = rtAsked
    /\ (rtPc = "loaded" /\ ~Contains(rtAsked, <<"_", "_">>)) =>
            /\ opened = rtAsked \o <<"_", "_">> \o rtAsked
                                \o <<".", "p", "k", "l", ".", "g", "z">>
            /\ (rtName = rtAsked /\ rtNetwork = <<>> /\ rtAlias = <<>>) =>
                    opened \in DOMAIN rtDir

\* C9 witness: a file whose network name has a dot was fetched, listed and
\* opened by its listed name.
C9_Witness ==
    /\ rtPc = "loaded"
    /\ rtAsked \in listing
    /\ \E i \in 1..Len(rtNetwork) : rtNetwork[i] = "."
    /\ rtAlias = <<>>
    /\ opened \in DOMAIN rtDir

(***************************************************************************)
(* CLAIMS ABOUT estimate_pvalues (checked under SpecEstimate)              *)
(***************************************************************************)

\* The number of null samples of v that are at least its observed value.
Extreme(v) == Cardinality({i \in 1..NSamples : eNull[v][i] >= eObs[v]})

\* The p-values and the flags have the keys of the observed table, and every
\* p-value is in [0, 1].
KeyedAsObserved ==
    /\ DOMAIN ePvals = DOMAIN eObs
    /\ DOMAIN eFlags = DOMAIN eObs
    /\ \A v \in DOMAIN ePvals : 0 <= ePvals[v] /\ ePvals[v] <= POne

\* C11 as stated: the table returned holds, for every entity, the fraction
\* of its null samples at least as extreme as its observed value.
C11_PvaluesAreFractions ==
    ePc = "done" =>
        /\ KeyedAsObserved
        /\ \A v \in DOMAIN eObs : ePvals[v] * NSamples = Extreme(v) * POne

\* C11 amended: the table returned has the keys of the observed table and
\* values in [0, 1]; with adjust=False (proteins) they are the fractions of
\* null samples at least as extreme as the observed value, with adjust=True
\* (domains, social) the Benjamini-Hochberg correction of those fractions.
C11_PvaluesRawOrAdjusted ==
    ePc = "done" =>
        LET fractions == [v \in DOMAIN eObs |-> (Extreme(v) * POne) \div NSamples]
        IN /\ KeyedAsObserved
           /\ \A v \in DOMAIN eObs : fractions[v] * NSamples = Extreme(v) * POne
           /\ eScript = "proteins" => ePvals = fractions
           /\ eScript # "proteins" => ePvals = BenjaminiHochberg(fractions)

\* C11 witness: the domains script got a p-value that is not the fraction of
\* null samples at least as extreme.
C11_Witness ==
    /\ ePc = "done"
    /\ eScript = "domains"
    /\ \E v \in DOMAIN eObs : ePvals[v] * NSamples # Extreme(v) * POne

(***************************************************************************)
(* CLAIMS ABOUT get_root_path (checked under SpecRootPath)                 *)
(***************************************************************************)

\* The origin and its ancestors: the origin's first k components.
Ancestor(k) == SubSeq(rpOrigin, 1, k)

\* The ancestor of k components is named root_dir, suffix apart.
Matches(k) == k > 0 /\ Stem(rpOrigin[k]) = rpRootDir

XMin == CHOOSE x \in {rsX.data[i] : i \in DOMAIN rsX.data} :
            \A i \in DOMAIN rsX.data : x <= rsX.data[i]

XMax == CHOOSE x \in {rsX.data[i] : i \in DOMAIN rsX.data} :
            \A i \in DOMAIN rsX.data : x >= rsX.data[i]

\* C13 as stated: rescale raises ValueError when m0 >= m1 and AttributeError
\* when X is not one-dimensional; otherwise value x of X becomes
\* m0 + (x - min) * (m1 - m0) / (max - min), m0 when X is constant, which
\* lies in [m0, m1].
C13_RescaleLinear ==
    rsPc = "done" =>
        IF rsM0 >= rsM1 THEN rsOut.kind = "ValueError"
        ELSE IF rsX.ndim # 1 THEN rsOut.kind = "AttributeError"
        ELSE Len(rsX.data) > 0 =>
                /\ rsOut.kind = "array"
                /\ rsOut.den > 0
                /\ DOMAIN rsOut.num = DOMAIN rsX.data
                /\ \A i \in DOMAIN rsX.data :
                        /\ rsM0 * rsOut.den <= rsOut.num[i]
                        /\ rsOut.num[i] <= rsM1 * rsOut.den
                        /\ IF XMax = XMin
                           THEN rsOut.num[i] = rsM0 * rsOut.den
                           ELSE rsOut.num[i] * (XMax - XMin) =
                                    rsOut.den * (rsM0 * (XMax - XMin)
                                        + (rsX.data[i] - XMin) * (rsM1 - rsM0))

(***************************************************************************)
(* CLAIMS ABOUT Netzschleuder.networks (checked under SpecNetworks)        *)
(***************************************************************************)

\* C15 as stated: an access to networks that returns gives the list of the
\* networks of the dataset self.name names at that time.
C15_NetworksOfCurrentName ==
    (netPc = "read" /\ ~netRead.raised) => netRead.nets = [dataset |-> netName]

(***************************************************************************)
(* CLAIMS ABOUT THE ATTRIBUTES OF A FETCHED GRAPH (checked under           *)
(* SpecFetchKwds)                                                          *)
(***************************************************************************)

\* C16 as stated: the graph a fetch returns carries the graph attributes
\* and the postprocess of that call, downloaded or read from the file.
C16_FetchedGraphCarriesCallKwds ==
    (cachePc = "fetched" /\ ~last.raised) =>
        /\ last.ret.attrs = last.kwds.attrs
        /\ last.ret.post = last.kwds.post

(***************************************************************************)
(* CLAIMS ABOUT THE ORDER OF THE GRAPHS (checked under Spec)               *)
(***************************************************************************)

\* C17 as stated: the null samples of a graph depend on the seed and on the
\* graph only, so they are the samples the graph gets when it is the first
\* of the dataset: drawn with the generator as set_seed left it.
C17_SamplesIndependentOfOrder ==
    \A k \in DOMAIN results :
        \A j \in DOMAIN results[k].null :
            results[k].null[j].draw =
                Advance(SeedRng(Seed(pipeline), 0), j - 1)


(***************************************************************************)
(* CLAIMS ABOUT THE DESCRIPTIVE STATISTICS (checked under SpecDescriptive)  *)
(***************************************************************************)

\* The datasets whose rows are in the table.
Described == 1..descDone

\* The rows of dataset k in the table, in their order.
RowsOf(k) ==
    LET at == {i \in DOMAIN descTable : descTable[i].group = DescDatasets[k]}
        nth(j) == CHOOSE i \in at : Cardinality({h \in at : h < i}) = j - 1
    IN [j \in 1..Cardinality(at) |-> descTable[nth(j)]]

\* Row r is the row of the graph file fn.
RowOfFile(r, fn) ==
    /\ r.domain = fn.domain
    /\ r.n_nodes = [num |-> fn.n_nodes, den |-> 1]
    /\ r.dataset \o Sep \o (IF r.network = <<>> THEN r.dataset ELSE r.network)
           = fn.name

\* C19: the rows of a dataset are one row for each of its networks, in
\* natural-sort order of the index, and then one row "Average", the last
\* one, with the mean over the networks; to_latex takes the last row of the
\* group for the average and reports N = number of rows - 1, the number of
\* networks.
C19_AverageRowLast ==
    /\ \A k \in Described :
           LET rows == RowsOf(k)
               n == Len(descFiles[k])
           IN /\ Len(rows) = n + 1
              /\ \A i \in 1..n : \E j \in 1..n : RowOfFile(rows[j], descFiles[k][i])
              /\ \A j \in 1..n : \E i \in 1..n : RowOfFile(rows[j], descFiles[k][i])
              /\ \A j \in 1..(n - 1) : ~RowLess(rows[j + 1], rows[j])
              /\ {j \in 1..(n + 1) : rows[j].network = Average} = {n + 1}
              /\ rows[n + 1].n_nodes.den = n
              /\ rows[n + 1].n_nodes.num = SumNodes([i \in 1..n |->
                     [n_nodes |-> [num |-> descFiles[k][i].n_nodes, den |-> 1]]])
    /\ descPc = "latex" =>
           \E k \in 1..Len(DescDatasets) :
               /\ descLatex.dataset = DescDatasets[k]
               /\ descLatex.N = Len(descFiles[k])
               /\ descLatex.avg.network = Average
               /\ Len(descLatex.mid) = Len(descFiles[k])
               /\ \A j \in DOMAIN descLatex.mid :
                      descLatex.mid[j].network # Average

\* C19 witness: a10 is listed before a2 and sorted after it, and the table
\* was printed.
C19_Witness ==
    /\ descPc = "latex"
    /\ descLatex.N = 2
    /\ \E k \in 1..Len(DescDatasets) :
           /\ descLatex.dataset = DescDatasets[k]
           /\ Len(descFiles[k]) = 2
           /\ descFiles[k][1].name = <<"a", "_", "_", "a", "1", "0">>
           /\ descFiles[k][2].name = <<"a", "_", "_", "a", "2">>
           /\ descFiles[k][1].domain = descFiles[k][2].domain
           /\ descLatex.mid[1].network = <<"a", "2">>
           /\ descLatex.mid[2].network = <<"a", "1", "0">>


(***************************************************************************)
(* CLAIMS ABOUT THE GRAPH METADATA (checked under SpecMetadata)            *)
(***************************************************************************)

\* The fractions a and b are the same number, or both NaN.
SameNumber(a, b) ==
    /\ (a.den = 0) = (b.den = 0)
    /\ a.num * b.den = b.num * a.den

\* C20: in every script the field "density" is the edge density of the
\* graph analysed, a value in [0, 1] when the graph has two vertices or
\* more, and "n_nodes" is its number of vertices.
C20_DensityIsEdgeDensity ==
    mdPc = "done" =>
        /\ SameNumber(mdOut.n_nodes, [num |-> Cardinality(mdGraph.verts), den |-> 1])
        /\ SameNumber(mdOut.density, Density(mdGraph))
        /\ Cardinality(mdGraph.verts) >= 2 =>
               /\ 0 <= mdOut.density.num
               /\ mdOut.density.num <= mdOut.density.den

====
